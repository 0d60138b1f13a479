--------------------------- MODULE DurableProofs ---------------------------
(***************************************************************************)
(* Proofs about the durability facade, for every set of writers, records   *)
(* and states, every adapter and every bound.                              *)
(***************************************************************************)
EXTENDS Durable, TLAPS

-----------------------------------------------------------------------------
(* Types of the operators the actions are built from.                      *)

\* The constants of the model are well typed.
LEMMA Constants ==
  /\ NoManifest \in Manifest /\ NoRecord \in Envelope /\ NoOp \in Op
  /\ Agent \in Keys /\ Ids \subseteq Keys /\ Events \subseteq Keys
  /\ Keys = Ids \union Events \union {Agent}
BY DurableAssumption
   DEF NoManifest, Manifest, NoRecord, Envelope, Contents, NoOp, Op, Keys, Kinds

\* A call that begins is a well-typed call of the kind, key and state it
\* was given, at seq 1 or at the next seq its life knows.
LEMMA NewOpType ==
  ASSUME NEW kind \in Kinds, NEW k \in Keys, NEW s \in Contents, NEW n \in Nat
  PROVE  /\ NewOp(kind, k, s, n) \in Op
         /\ NewOp(kind, k, s, n).kind = kind
         /\ NewOp(kind, k, s, n).key = k
         /\ NewOp(kind, k, s, n).state = s
         /\ NewOp(kind, k, s, n).seq = IF kind = "create" THEN 1 ELSE n + 1
         /\ NewOp(kind, k, s, n).warmed <=> kind # "create" /\ n # 0
         /\ ~NewOp(kind, k, s, n).past
         /\ ~NewOp(kind, k, s, n).reading
         /\ ~NewOp(kind, k, s, n).adopted
<1> DEFINE o == NewOp(kind, k, s, n)
<1>1. o = [kind |-> kind, key |-> k, state |-> s,
           seq |-> IF kind = "create" THEN 1 ELSE n + 1,
           warmed |-> kind # "create" /\ n # 0, adopted |-> FALSE,
           past |-> FALSE, reading |-> FALSE, latest |-> 0, tries |-> Retries]
  BY DEF NewOp, NoOp
<1>2. (kind # "create" /\ n # 0) \in BOOLEAN
  OBVIOUS
<1>3. (IF kind = "create" THEN 1 ELSE n + 1) \in Nat /\ Retries \in Nat
  BY DurableAssumption
<1> HIDE DEF o
<1>4. o \in Op
  BY <1>1, <1>2, <1>3 DEF Op
<1>5. /\ o.kind = kind /\ o.key = k /\ o.state = s
      /\ o.seq = IF kind = "create" THEN 1 ELSE n + 1
  BY <1>1
<1>6. /\ o.warmed <=> kind # "create" /\ n # 0
      /\ ~o.past /\ ~o.reading /\ ~o.adopted
  BY <1>1, Zenon
<1> QED BY <1>4, <1>5, <1>6 DEF o

\* The manifests a start reads and writes are manifests, and its seqs are seqs.
LEMMA RestoreTypes ==
  ASSUME TypeOK
  PROVE  /\ StoredManifest \in Manifest
         /\ Found \subseteq Ids
         /\ Resumed(StoredManifest) \in Manifest
         /\ Opened(StoredManifest) \in Manifest
         /\ \A read : Warm(read) \in [Keys -> Nat]
<1>1. StoredManifest \in Manifest
  BY Constants DEF TypeOK, StoreKept, CallKept, StoredManifest, Live
<1>2. Listed \subseteq Ids
  BY DEF Listed
<1>3. StoredManifest.index \subseteq Ids /\ StoredManifest.retired \subseteq Ids
      /\ StoredManifest.gen \in Nat
  BY <1>1 DEF Manifest
<1>4. Found \subseteq Ids
  BY <1>2, <1>3 DEF Found, Adopts
<1>5. Resumed(StoredManifest) \in Manifest
  BY <1>2, <1>3, <1>4 DEF Resumed, Manifest
<1>6. Opened(StoredManifest) \in Manifest
  BY <1>2, <1>3 DEF Opened, Manifest
<1>7. \A read : Warm(read) \in [Keys -> Nat]
  BY DEF Warm, TypeOK, Envelope
<1> QED BY <1>1, <1>4, <1>5, <1>6, <1>7

-----------------------------------------------------------------------------
(* Type correctness.                                                       *)

\* The end of a call leaves its writer idle.
LEMMA DoneType ==
  ASSUME TypeOK, NEW w \in Writers, NEW ans \in Answers, Done(w, ans)
  PROVE  /\ op' \in [Writers -> Op]
         /\ answer' \in [Writers -> Answers]
         /\ op'[w] = NoOp /\ \A v \in Writers \ {w} : op'[v] = op[v]
BY Constants DEF TypeOK, Done

\* What a process loses is well typed.
LEMMA ForgetType ==
  ASSUME TypeOK, NEW w \in Writers, Forget(w)
  PROVE  /\ seqs' \in [Writers -> [Keys -> Nat]]
         /\ man' \in [Writers -> Manifest]
         /\ dirty' \in [Writers -> BOOLEAN]
         /\ degraded' \in [Writers -> BOOLEAN]
<1>1. [k \in Keys |-> 0] \in [Keys -> Nat]
  OBVIOUS
<1> QED BY <1>1, Constants DEF TypeOK, Forget

\* A failed call keeps every variable but the store well typed.
LEMMA FailType ==
  ASSUME TypeOK, NEW w \in Writers, NEW ans \in Answers, Fail(w, ans)
  PROVE  /\ op' \in [Writers -> Op] /\ answer' \in [Writers -> Answers]
         /\ op'[w] = NoOp /\ \A v \in Writers \ {w} : op'[v] = op[v]
         /\ phase' \in [Writers -> {"down", "boot", "up"}]
         /\ seqs' \in [Writers -> [Keys -> Nat]]
         /\ man' \in [Writers -> Manifest]
         /\ dirty' \in [Writers -> BOOLEAN]
         /\ degraded' \in [Writers -> BOOLEAN]
         /\ UNCHANGED ghosts
<1>1. Done(w, ans) /\ UNCHANGED ghosts
  BY DEF Fail
<1>2. phase' \in [Writers -> {"down", "boot", "up"}]
  BY DEF Fail, TypeOK
<1>3. /\ seqs' \in [Writers -> [Keys -> Nat]]
      /\ man' \in [Writers -> Manifest]
      /\ dirty' \in [Writers -> BOOLEAN]
      /\ degraded' \in [Writers -> BOOLEAN]
  <2>1. CASE phase[w] = "boot"
    BY <2>1, ForgetType DEF Fail
  <2>2. CASE phase[w] # "boot"
    BY <2>2 DEF Fail, mem, TypeOK
  <2> QED BY <2>1, <2>2
<1> QED BY <1>1, <1>2, <1>3, DoneType

\* A write that counts as made keeps every variable but the store and the
\* degraded flag well typed.
LEMMA MadeType ==
  ASSUME TypeOK, NEW w \in Writers, NEW ix \in BOOLEAN, Writing(w), Made(w, ix)
  PROVE  /\ op' \in [Writers -> Op] /\ answer' \in [Writers -> Answers]
         /\ op'[w] = NoOp /\ \A v \in Writers \ {w} : op'[v] = op[v]
         /\ phase' \in [Writers -> {"down", "boot", "up"}]
         /\ seqs' \in [Writers -> [Keys -> Nat]]
         /\ man' \in [Writers -> Manifest]
         /\ dirty' \in [Writers -> BOOLEAN]
         /\ accepted' \in [Ids \union Events -> States \union {Null}]
         /\ pending' \in [Ids \union Events -> SUBSET (States \union {Null})]
         /\ flushed' \subseteq Ids /\ abandoned' \subseteq Ids
<1> DEFINE o == op[w]
<1>1. /\ o \in Op /\ o.key \in Keys /\ o.seq \in Nat /\ o.kind \in Kinds
      /\ o.kind \in {"put", "create", "tombstone", "flush", "fresh"}
      /\ o.kind \in {"flush", "fresh"} => o.key = Agent
      /\ o.kind \notin {"flush", "fresh"} =>
           o.key \in Ids \union Events /\ o.state \in States \union {Null}
  BY DEF TypeOK, Op, Writing, StoreKept, CallKept
<1>2. /\ op' \in [Writers -> Op] /\ answer' \in [Writers -> Answers]
      /\ op'[w] = NoOp /\ \A v \in Writers \ {w} : op'[v] = op[v]
  <2>1. Done(w, "ok") /\ "ok" \in Answers
    BY DEF Made, Answers
  <2> QED BY <2>1, DoneType
<1>3. phase' \in [Writers -> {"down", "boot", "up"}]
  BY DEF Made, TypeOK
<1>4. seqs' \in [Writers -> [Keys -> Nat]]
  BY <1>1 DEF Made, TypeOK
<1>5. man' \in [Writers -> Manifest]
  <2>1. man[w] \in Manifest
    BY DEF TypeOK
  <2>2. CASE o.kind = "put" /\ ix
    <3>1. o.key \in Ids
      BY <2>2 DEF TypeOK, StoreKept, CallKept
    <3>2. man' = [man EXCEPT ![w].index = @ \union {o.key}]
      BY <2>2 DEF Made
    <3> QED BY <3>1, <3>2, <2>1 DEF TypeOK, Manifest
  <2>3. CASE o.kind = "tombstone"
    <3>1. man' = [man EXCEPT ![w].index = @ \ {o.key}]
      BY <2>3 DEF Made
    <3> QED BY <3>1, <2>1 DEF TypeOK, Manifest
  <2>4. CASE o.kind # "tombstone" /\ ~(o.kind = "put" /\ ix)
    <3>1. man' = [man EXCEPT ![w].index = @]
      BY <2>4 DEF Made
    <3> QED BY <3>1, <2>1 DEF TypeOK, Manifest
  <2> QED BY <2>2, <2>3, <2>4
<1>6. dirty' \in [Writers -> BOOLEAN]
  BY DEF Made, TypeOK
<1>7. accepted' \in [Ids \union Events -> States \union {Null}]
  <2>1. CASE o.key = Agent
    BY <2>1 DEF Made, TypeOK
  <2>2. CASE o.key # Agent
    <3>1. accepted' = [accepted EXCEPT ![o.key] = o.state]
      BY <2>2 DEF Made
    <3> QED BY <1>1, <2>2, <3>1 DEF TypeOK
  <2> QED BY <2>1, <2>2
<1>8. pending' \in [Ids \union Events -> SUBSET (States \union {Null})]
  <2>1. CASE o.kind = "fresh"
    BY <2>1 DEF Made, TypeOK
  <2>2. CASE o.kind # "fresh" /\ o.key # Agent
    <3>1. pending' = [pending EXCEPT ![o.key] = {}]
      BY <2>2 DEF Made
    <3> QED BY <3>1 DEF TypeOK
  <2>3. CASE o.kind # "fresh" /\ o.key = Agent
    BY <2>3 DEF Made, TypeOK
  <2> QED BY <2>1, <2>2, <2>3
<1>9. flushed' \subseteq Ids /\ abandoned' \subseteq Ids
  <2>1. man[w].index \subseteq Ids
    BY DEF TypeOK, Manifest
  <2> QED BY <2>1 DEF Made, TypeOK
<1> QED BY <1>2, <1>3, <1>4, <1>5, <1>6, <1>7, <1>8, <1>9

\* The store stays well typed when the write in flight is applied.
LEMMA ApplyType ==
  ASSUME TypeOK, NEW w \in Writers, Writing(w), Apply(w)
  PROVE  /\ store' \in [Keys -> Envelope]
         /\ StoreKept'
<1>1. op[w] \in Op /\ op[w].key \in Keys /\ op[w].seq \in Nat /\ op[w].state \in Contents
  BY DEF TypeOK, Op
<1>2. op[w].kind \in {"flush", "fresh"} => op[w].key = Agent /\ op[w].state \in Manifest
  BY DEF TypeOK, StoreKept, CallKept
<1>3. op[w].kind \in {"put", "create", "tombstone"} =>
        op[w].key \in Ids \union Events /\ op[w].state \in States \union {Null}
  BY DEF TypeOK, StoreKept, CallKept
<1>4. store' = [store EXCEPT ![op[w].key] = [seq |-> op[w].seq, state |-> op[w].state]]
  BY DEF Apply
<1>5. store' \in [Keys -> Envelope]
  BY <1>1, <1>4 DEF TypeOK, Envelope
<1>6. \A k \in Keys : store'[k].state = IF k = op[w].key THEN op[w].state ELSE store[k].state
  BY <1>1, <1>4 DEF TypeOK
<1> QED BY <1>1, <1>2, <1>3, <1>5, <1>6, Constants, DurableAssumption
        DEF TypeOK, StoreKept, CallKept, Writing

\* A step of one writer keeps the calls of the others as they were.
LEMMA CallKeptStep ==
  ASSUME TypeOK, NEW w \in Writers, CallKept(w)',
         \A v \in Writers \ {w} : op'[v] = op[v]
  PROVE  \A v \in Writers : CallKept(v)'
BY DEF TypeOK, CallKept

\* A writer with no call in flight has none that is ill formed.
LEMMA NoOpKept == ASSUME NEW w \in Writers, op'[w] = NoOp PROVE CallKept(w)'
BY DEF CallKept, NoOp

\* A failed call, the store as it was.
LEMMA FailStep ==
  ASSUME TypeOK, NEW w \in Writers, NEW ans \in Answers, Fail(w, ans),
         UNCHANGED copies, store' \in [Keys -> Envelope], StoreKept'
  PROVE  TypeOK'
<1>1. CallKept(w)'
  BY FailType, NoOpKept
<1>2. \A v \in Writers : CallKept(v)'
  BY <1>1, FailType, CallKeptStep
<1>3. /\ accepted' = accepted /\ pending' = pending
      /\ flushed' = flushed /\ abandoned' = abandoned
  BY FailType DEF ghosts
<1> QED BY <1>2, <1>3, FailType DEF TypeOK

\* A write that counts as made, whatever the store did.
LEMMA MadeStep ==
  ASSUME TypeOK, NEW w \in Writers, NEW ix \in BOOLEAN, NEW b \in BOOLEAN,
         Writing(w), Made(w, ix), degraded' = [degraded EXCEPT ![w] = b],
         UNCHANGED copies, store' \in [Keys -> Envelope], StoreKept'
  PROVE  TypeOK'
<1>1. CallKept(w)'
  BY MadeType, NoOpKept
<1>2. \A v \in Writers : CallKept(v)'
  BY <1>1, MadeType, CallKeptStep
<1>3. degraded' \in [Writers -> BOOLEAN]
  BY DEF TypeOK
<1> QED BY <1>2, <1>3, MadeType DEF TypeOK

\* A call that goes on: only the call in flight changes, and perhaps the store.
LEMMA GoesOn ==
  ASSUME TypeOK, NEW w \in Writers, NEW o \in Op, op' = [op EXCEPT ![w] = o],
         CallKept(w)', store' \in [Keys -> Envelope], StoreKept',
         copies' \subseteq Manifest,
         UNCHANGED <<phase, answer>>, UNCHANGED ghosts,
         seqs' \in [Writers -> [Keys -> Nat]], UNCHANGED <<man, dirty>>,
         degraded' \in [Writers -> BOOLEAN]
  PROVE  TypeOK'
<1>1. op' \in [Writers -> Op] /\ \A v \in Writers \ {w} : op'[v] = op[v]
  BY DEF TypeOK
<1>2. \A v \in Writers : CallKept(v)'
  BY <1>1, CallKeptStep
<1> QED BY <1>1, <1>2 DEF TypeOK, ghosts

\* Beginning a call keeps the types.
LEMMA BeginType ==
  ASSUME TypeOK, NEW w \in Writers, NEW kind \in Kinds, NEW k \in Keys,
         NEW s \in Contents, Begin(w, kind, k, s),
         kind \in {"flush", "fresh", "archive"} => k = Agent /\ s \in Manifest,
         kind \in {"put", "create", "tombstone", "delete"} =>
            k \in Ids \union Events /\ s \in States \union {Null},
         kind = "put" => k \in Ids,
         kind = "create" => k \in Events /\ s \in States,
         pending' \in [Ids \union Events -> SUBSET (States \union {Null})],
         flushed' \subseteq Ids
  PROVE  TypeOK'
<1> DEFINE o == NewOp(kind, k, s, seqs[w][k])
<1>1. seqs[w][k] \in Nat
  BY DEF TypeOK
<1>2. o \in Op /\ o.kind = kind /\ o.key = k /\ o.state = s /\ ~o.reading
  BY <1>1, NewOpType
<1>3. op' = [op EXCEPT ![w] = o]
  BY DEF Begin
<1> HIDE DEF o
<1>4. /\ op' \in [Writers -> Op] /\ op'[w] = o
      /\ \A v \in Writers \ {w} : op'[v] = op[v]
  BY <1>2, <1>3 DEF TypeOK
<1>5. CallKept(w)'
  BY <1>2, <1>4 DEF CallKept
<1>6. \A v \in Writers : CallKept(v)'
  BY <1>4, <1>5, CallKeptStep
<1>7. answer' \in [Writers -> Answers]
  BY DEF Begin, TypeOK, Answers
<1>8. UNCHANGED <<store, copies, phase, accepted, abandoned, seqs, man, dirty, degraded>>
  BY DEF Begin, mem
<1>9. StoreKept'
  BY <1>8 DEF TypeOK, StoreKept
<1> QED BY <1>4, <1>6, <1>7, <1>8, <1>9 DEF TypeOK

\* Every call of the facade, as it begins, keeps the types.
LEMMA CallType ==
  ASSUME TypeOK, NEW w \in Writers, Call(w) PROVE TypeOK'
<1>1. ASSUME NEW kind \in {"put", "create", "tombstone", "delete"},
             NEW k \in Ids \union Events, NEW s \in States \union {Null},
             BeginEntity(w, kind, k, s), kind = "put" => k \in Ids,
             kind = "create" => k \in Events /\ s \in States
      PROVE  TypeOK'
  <2>1. pending' \in [Ids \union Events -> SUBSET (States \union {Null})]
    BY <1>1 DEF BeginEntity, TypeOK
  <2>2. flushed' \subseteq Ids
    BY <1>1 DEF BeginEntity, TypeOK
  <2>3. k \in Keys /\ s \in Contents /\ kind \in Kinds /\ kind \notin {"flush", "fresh", "archive"}
    BY <1>1, Constants DEF Contents, Kinds
  <2>4. Begin(w, kind, k, s)
    BY <1>1 DEF BeginEntity
  <2> QED BY <1>1, <2>1, <2>2, <2>3, <2>4, BeginType
<1>2. ASSUME NEW k \in Ids, NEW s \in States, Put(w, k, s) PROVE TypeOK'
  BY <1>1, <1>2 DEF Put
<1>3. ASSUME NEW k \in Events, NEW s \in States, Create(w, k, s) PROVE TypeOK'
  BY <1>1, <1>3 DEF Create
<1>4. ASSUME NEW k \in Ids \union Events, Delete(w, k) PROVE TypeOK'
  <2>1. CASE HasDelete
    BY <1>1, <1>4, <2>1 DEF Delete
  <2>2. CASE ~HasDelete
    BY <1>1, <1>4, <2>2 DEF Delete
  <2> QED BY <2>1, <2>2
<1>5. ASSUME NEW k \in Ids \union Events, Get(w, k) PROVE TypeOK'
  <2>1. k \in Keys /\ store[k].seq \in Nat
    BY Constants DEF TypeOK, Envelope
  <2>2. seqs' \in [Writers -> [Keys -> Nat]]
    BY <1>5, <2>1 DEF Get, TypeOK
  <2> QED BY <1>5, <2>2 DEF Get, TypeOK, ghosts, StoreKept, CallKept
<1>6. CASE Flush(w)
  <2>1. man[w] \in Manifest /\ man[w] \in Contents
    BY DEF TypeOK, Contents
  <2>2. Begin(w, "flush", Agent, man[w]) /\ UNCHANGED <<pending, flushed>>
    BY <1>6 DEF Flush
  <2>3. /\ pending' \in [Ids \union Events -> SUBSET (States \union {Null})]
        /\ flushed' \subseteq Ids
    BY <2>2 DEF TypeOK
  <2> QED BY <2>1, <2>2, <2>3, BeginType, Constants DEF Kinds
<1>7. CASE ManifestUpdate(w)
  BY <1>7 DEF ManifestUpdate, TypeOK, ghosts, StoreKept, CallKept
<1> QED BY <1>2, <1>3, <1>4, <1>5, <1>6, <1>7 DEF Call

\* A call that goes round its loop again is a well-typed call.
LEMMA OpUpdate ==
  ASSUME NEW o \in Op, NEW n \in Nat, NEW m \in Nat
  PROVE  /\ [o EXCEPT !.seq = n, !.tries = m, !.adopted = TRUE, !.warmed = TRUE] \in Op
         /\ [o EXCEPT !.seq = n, !.tries = m, !.past = TRUE, !.reading = FALSE] \in Op
<1> DEFINE a == [o EXCEPT !.seq = n, !.tries = m]
<1>1. a \in Op
  BY DEF Op
<1> HIDE DEF a
<1>2. [a EXCEPT !.adopted = TRUE, !.warmed = TRUE] \in Op
  BY <1>1 DEF Op
<1>3. [a EXCEPT !.past = TRUE, !.reading = FALSE] \in Op
  BY <1>1 DEF Op
<1> QED BY <1>2, <1>3 DEF a

\* The call in flight, as a well-typed record.
LEMMA OpType ==
  ASSUME TypeOK, NEW w \in Writers
  PROVE  /\ op[w] \in Op /\ op[w].key \in Keys /\ op[w].seq \in Nat
         /\ op[w].tries \in Nat /\ op[w].latest \in Nat
         /\ op[w].state \in Contents /\ op[w].kind \in Kinds
         /\ store[op[w].key].seq \in Nat
         /\ CallKept(w)
<1>1. op[w] \in Op /\ CallKept(w)
  BY DEF TypeOK
<1>2. /\ op[w].key \in Keys /\ op[w].seq \in Nat
      /\ op[w].tries \in Nat /\ op[w].latest \in Nat
      /\ op[w].state \in Contents /\ op[w].kind \in Kinds
  BY <1>1 DEF Op
<1> QED BY <1>1, <1>2 DEF TypeOK, Envelope

\* Every answer of the store keeps the types.
LEMMA StoreCallType ==
  ASSUME TypeOK, NEW w \in Writers, StoreCall(w) PROVE TypeOK'
<1>a. /\ op[w] \in Op /\ op[w].key \in Keys /\ op[w].seq \in Nat
      /\ op[w].tries \in Nat /\ op[w].latest \in Nat
      /\ store[op[w].key].seq \in Nat
      /\ Retries \in Nat
  BY OpType, DurableAssumption
<1>b. CallKept(w)
  BY OpType
<1> USE <1>a, <1>b
<1>0. /\ store \in [Keys -> Envelope] /\ StoreKept /\ copies \subseteq Manifest
      /\ seqs \in [Writers -> [Keys -> Nat]] /\ degraded \in [Writers -> BOOLEAN]
      /\ {"error", "conflict", "ok", "occupied"} \subseteq Answers
      /\ store' = store => StoreKept'
  BY DEF TypeOK, Answers, StoreKept
<1>1. CASE PutOk(w)
  BY <1>1, ApplyType, MadeStep DEF PutOk
<1>2. CASE PutRetried(w)
  <2> DEFINE o == [op[w] EXCEPT !.tries = @ - 1]
  <2>a. op[w].tries - 1 \in Nat
    BY <1>2 DEF PutRetried
  <2>b. o \in Op
    BY <2>a DEF Op
  <2>1. o \in Op /\ op' = [op EXCEPT ![w] = o]
    BY <1>2, <2>b DEF PutRetried, TypeOK
  <2>2. store' \in [Keys -> Envelope] /\ StoreKept'
    BY <1>2, <1>0, ApplyType DEF PutRetried
  <2>3. CallKept(w)'
    BY <2>1 DEF CallKept, TypeOK, Op
  <2> QED BY <1>0, <1>2, <2>1, <2>2, <2>3, GoesOn DEF PutRetried, mem
<1>3. CASE PutFailed(w)
  <2>1. store' \in [Keys -> Envelope] /\ StoreKept'
    BY <1>3, <1>0, ApplyType DEF PutFailed
  <2>2. CASE Fail(w, "error")
    BY <1>0, <1>3, <2>1, <2>2, FailStep DEF PutFailed
  <2>3. CASE Made(w, FALSE) /\ degraded' = [degraded EXCEPT ![w] = TRUE]
    BY <1>0, <1>3, <2>1, <2>3, MadeStep DEF PutFailed
  <2> QED BY <1>3, <2>2, <2>3 DEF PutFailed
<1>4. CASE PutAdopts(w)
  <2> DEFINE o == [op[w] EXCEPT !.seq = store[op[w].key].seq + 1,
                    !.tries = Retries, !.adopted = TRUE, !.warmed = TRUE]
  <2>1. op' = [op EXCEPT ![w] = o]
    BY <1>4 DEF PutAdopts, TypeOK
  <2>2. o \in Op
    <3>1. store[op[w].key].seq + 1 \in Nat
      OBVIOUS
    <3> QED BY <3>1, OpUpdate, Zenon
  <2>3. CallKept(w)'
    BY <2>1 DEF CallKept, TypeOK, Op
  <2>4. seqs' \in [Writers -> [Keys -> Nat]]
    BY <1>4, <1>0 DEF PutAdopts
  <2> HIDE DEF o
  <2> QED BY <1>0, <1>4, <2>1, <2>2, <2>3, <2>4, GoesOn DEF PutAdopts
<1>5. CASE PutConflict(w)
  BY <1>0, <1>5, FailStep DEF PutConflict
<1>6. CASE CreateTaken(w)
  <2> DEFINE o == [op[w] EXCEPT !.reading = TRUE, !.latest = store[op[w].key].seq]
  <2>1. op' = [op EXCEPT ![w] = o]
    BY <1>6 DEF CreateTaken, TypeOK
  <2>2. o \in Op
    BY DEF Op
  <2>3. CallKept(w)'
    BY <1>6, <2>1 DEF CallKept, CreateTaken, TypeOK, Op
  <2> HIDE DEF o
  <2> QED BY <1>0, <1>6, <2>1, <2>2, <2>3, GoesOn DEF CreateTaken, mem
<1>7. CASE CreateOurs(w)
  <2>1. Writing(w)
    BY <1>7 DEF CreateOurs, CallKept, Writing
  <2> QED BY <1>0, <1>7, <2>1, MadeStep DEF CreateOurs
<1>8. CASE CreatePastTombstone(w)
  <2> DEFINE o == [op[w] EXCEPT !.seq = op[w].latest + 1, !.tries = Retries,
                                !.past = TRUE, !.reading = FALSE]
  <2>1. op' = [op EXCEPT ![w] = o]
    BY <1>8 DEF CreatePastTombstone, TypeOK
  <2>2. o \in Op
    <3>1. op[w].latest + 1 \in Nat
      OBVIOUS
    <3> QED BY <3>1, OpUpdate, Zenon
  <2>3. CallKept(w)'
    BY <1>8, <2>1 DEF CallKept, TypeOK, Op
  <2> HIDE DEF o
  <2> QED BY <1>0, <1>8, <2>1, <2>2, <2>3, GoesOn DEF CreatePastTombstone, mem
<1>9. CASE CreateOccupied(w)
  <2>1. Done(w, "occupied")
    BY <1>9 DEF CreateOccupied
  <2>2. /\ op' \in [Writers -> Op] /\ answer' \in [Writers -> Answers]
        /\ op'[w] = NoOp /\ \A v \in Writers \ {w} : op'[v] = op[v]
    BY <1>0, <2>1, DoneType
  <2>3. \A v \in Writers : CallKept(v)'
    BY <2>2, NoOpKept, CallKeptStep
  <2>4. seqs' \in [Writers -> [Keys -> Nat]]
    BY <1>0, <1>9 DEF CreateOccupied
  <2>5. pending' \in [Ids \union Events -> SUBSET (States \union {Null})]
    BY <1>9 DEF CreateOccupied, TypeOK
  <2> QED BY <1>0, <1>9, <2>2, <2>3, <2>4, <2>5 DEF CreateOccupied, TypeOK
<1>10. CASE CreateReadFailed(w)
  BY <1>0, <1>10, FailStep DEF CreateReadFailed
<1>11. CASE DeleteOk(w)
  <2>1. op[w].key \in Ids \union Events
    BY <1>11 DEF DeleteOk, CallKept
  <2>2. /\ op' \in [Writers -> Op] /\ answer' \in [Writers -> Answers]
        /\ op'[w] = NoOp /\ \A v \in Writers \ {w} : op'[v] = op[v]
    BY <1>0, <1>11, DoneType DEF DeleteOk
  <2>3. \A v \in Writers : CallKept(v)'
    BY <2>2, NoOpKept, CallKeptStep
  <2>4. store' \in [Keys -> Envelope] /\ StoreKept'
    BY <1>0, <1>11, <2>1, Constants, DurableAssumption DEF DeleteOk, StoreKept, NoRecord
  <2>5. seqs' \in [Writers -> [Keys -> Nat]]
    BY <1>0, <1>11 DEF DeleteOk
  <2>6. man' \in [Writers -> Manifest]
    <3>1. man[w] \in Manifest
      BY DEF TypeOK
    <3> QED BY <1>11, <3>1 DEF DeleteOk, TypeOK, Manifest
  <2>7. dirty' \in [Writers -> BOOLEAN]
    BY <1>11 DEF DeleteOk, TypeOK
  <2>8. /\ accepted' \in [Ids \union Events -> States \union {Null}]
        /\ pending' \in [Ids \union Events -> SUBSET (States \union {Null})]
        /\ abandoned' \subseteq Ids
    BY <1>11, <2>1 DEF DeleteOk, TypeOK
  <2> QED BY <1>11, <2>2, <2>3, <2>4, <2>5, <2>6, <2>7, <2>8 DEF DeleteOk, TypeOK
<1>12. CASE DeleteFailed(w)
  <2>1. store' \in [Keys -> Envelope] /\ StoreKept'
    <3>1. op[w].key \in Ids \union Events
      BY <1>12 DEF DeleteFailed, CallKept
    <3>2. store' = store \/ store' = [store EXCEPT ![op[w].key] = NoRecord]
      BY <1>12 DEF DeleteFailed
    <3> QED BY <1>0, <3>1, <3>2, Constants, DurableAssumption DEF StoreKept, NoRecord
  <2>2. CASE op[w].tries > 1
    <3> DEFINE o == [op[w] EXCEPT !.tries = @ - 1]
    <3>a. op[w].tries - 1 \in Nat
      BY <2>2
    <3>b. o \in Op
      BY <3>a DEF Op
    <3>1. o \in Op /\ op' = [op EXCEPT ![w] = o]
      BY <1>12, <2>2, <3>b DEF DeleteFailed, TypeOK
    <3>2. CallKept(w)'
      BY <3>1 DEF CallKept, TypeOK, Op
    <3>3. UNCHANGED <<phase, answer, seqs, man, dirty, degraded, copies>> /\ UNCHANGED ghosts
      BY <1>12, <2>2 DEF DeleteFailed, mem
    <3> HIDE DEF o
    <3> QED BY <1>0, <2>1, <3>1, <3>2, <3>3, GoesOn
  <2>3. CASE ~(op[w].tries > 1)
    BY <1>0, <1>12, <2>1, <2>3, FailStep DEF DeleteFailed
  <2> QED BY <2>2, <2>3
<1>13. ASSUME op[w].kind = "archive",
              op' = [op EXCEPT ![w] = NewOp("fresh", Agent, man[w], seqs[w][Agent])]
       PROVE  CallKept(w)' /\ NewOp("fresh", Agent, man[w], seqs[w][Agent]) \in Op
  <2>1. man[w] \in Manifest /\ man[w] \in Contents /\ seqs[w][Agent] \in Nat
    BY Constants DEF TypeOK, Contents
  <2>2. /\ NewOp("fresh", Agent, man[w], seqs[w][Agent]) \in Op
        /\ NewOp("fresh", Agent, man[w], seqs[w][Agent]).kind = "fresh"
        /\ NewOp("fresh", Agent, man[w], seqs[w][Agent]).key = Agent
        /\ NewOp("fresh", Agent, man[w], seqs[w][Agent]).state = man[w]
        /\ ~NewOp("fresh", Agent, man[w], seqs[w][Agent]).reading
    <3>1. "fresh" \in Kinds /\ Agent \in Keys
      BY Constants DEF Kinds
    <3> QED BY <2>1, <3>1, NewOpType
  <2>3. op'[w] = NewOp("fresh", Agent, man[w], seqs[w][Agent])
    BY <1>13 DEF TypeOK
  <2> QED BY <2>1, <2>2, <2>3 DEF CallKept
<1>14. CASE ArchiveOk(w)
  <2>1. op[w].state \in Manifest
    BY <1>14 DEF ArchiveOk, CallKept
  <2>2. copies' \subseteq Manifest
    BY <1>0, <1>14, <2>1 DEF ArchiveOk
  <2> QED BY <1>0, <1>13, <1>14, <2>2, GoesOn DEF ArchiveOk, mem
<1>15. CASE ArchiveFailed(w)
  <2>1. CASE Fail(w, "error")
    BY <1>0, <1>15, <2>1, FailStep DEF ArchiveFailed
  <2>2. CASE ~Fail(w, "error")
    <3>1. /\ op' = [op EXCEPT ![w] = NewOp("fresh", Agent, man[w], seqs[w][Agent])]
          /\ degraded' = [degraded EXCEPT ![w] = TRUE]
          /\ UNCHANGED <<phase, answer, seqs, man, dirty, store, copies>>
          /\ UNCHANGED ghosts /\ op[w].kind = "archive"
      BY <1>15, <2>2 DEF ArchiveFailed
    <3>2. degraded' \in [Writers -> BOOLEAN]
      BY <1>0, <3>1
    <3> QED BY <1>0, <1>13, <3>1, <3>2, GoesOn
  <2> QED BY <2>1, <2>2
<1> QED BY <1>1, <1>2, <1>3, <1>4, <1>5, <1>6, <1>7, <1>8, <1>9, <1>10, <1>11,
           <1>12, <1>14, <1>15 DEF StoreCall

\* A start and a crash keep the types.
LEMMA LifeType ==
  ASSUME TypeOK, NEW w \in Writers, Life(w) PROVE TypeOK'
<1>1. ASSUME NEW m \in Manifest, NEW warm \in [Keys -> Nat], NEW o \in Op,
             o.kind \in {"flush", "fresh", "archive"}, o.key = Agent,
             o.state \in Manifest, ~o.reading, Boot(w, m, warm, o),
             pending' \in [Ids \union Events -> SUBSET (States \union {Null})],
             flushed' \subseteq Ids
      PROVE  TypeOK'
  <2>1. /\ phase' \in [Writers -> {"down", "boot", "up"}]
        /\ man' \in [Writers -> Manifest]
        /\ seqs' \in [Writers -> [Keys -> Nat]]
        /\ op' \in [Writers -> Op] /\ op'[w] = o
        /\ \A v \in Writers \ {w} : op'[v] = op[v]
        /\ answer' \in [Writers -> Answers]
    BY <1>1 DEF Boot, TypeOK, Answers
  <2>2. dirty' \in [Writers -> BOOLEAN]
    BY <1>1 DEF Boot, TypeOK
  <2>3. CallKept(w)'
    BY <1>1, <2>1 DEF CallKept
  <2>4. \A v \in Writers : CallKept(v)'
    BY <2>1, <2>3, CallKeptStep
  <2>5. UNCHANGED <<store, copies, degraded, accepted, abandoned>>
    BY <1>1 DEF Boot
  <2>6. StoreKept'
    BY <2>5 DEF StoreKept, TypeOK
  <2> QED BY <1>1, <2>1, <2>2, <2>4, <2>5, <2>6 DEF TypeOK
<1>2. /\ StoredManifest \in Manifest
      /\ Resumed(StoredManifest) \in Manifest
      /\ Opened(StoredManifest) \in Manifest
      /\ \A read : Warm(read) \in [Keys -> Nat] /\ Warm(read)[Agent] \in Nat
      /\ Manifest \subseteq Contents /\ {"flush", "fresh", "archive"} \subseteq Kinds
  BY RestoreTypes, Constants DEF Contents, Kinds
<1>3. ASSUME NEW kind \in {"flush", "fresh", "archive"}, NEW m \in Manifest, NEW n \in Nat
      PROVE  /\ NewOp(kind, Agent, m, n) \in Op
             /\ NewOp(kind, Agent, m, n).kind \in {"flush", "fresh", "archive"}
             /\ NewOp(kind, Agent, m, n).key = Agent
             /\ NewOp(kind, Agent, m, n).state \in Manifest
             /\ ~NewOp(kind, Agent, m, n).reading
  <2>1. kind \in Kinds /\ Agent \in Keys /\ m \in Contents
    BY <1>2, <1>3, Constants
  <2> QED BY <1>3, <2>1, NewOpType
<1>4. CASE Restore(w)
  <2> DEFINE m == Resumed(StoredManifest)
             warm == Warm(StoredManifest.index \union Adopts)
             o == NewOp("flush", Agent, m, warm[Agent])
  <2>1. Boot(w, m, warm, o) /\ UNCHANGED <<pending, flushed>>
    BY <1>4 DEF Restore
  <2>2. m \in Manifest /\ warm \in [Keys -> Nat] /\ warm[Agent] \in Nat
    BY <1>2
  <2> HIDE DEF m, warm
  <2>3. /\ pending' \in [Ids \union Events -> SUBSET (States \union {Null})]
        /\ flushed' \subseteq Ids
    BY <2>1 DEF TypeOK
  <2>4. /\ o \in Op /\ o.kind \in {"flush", "fresh", "archive"} /\ o.key = Agent
        /\ o.state \in Manifest /\ ~o.reading
    BY <1>3, <2>2
  <2> HIDE DEF o
  <2> QED BY <1>1, <2>1, <2>2, <2>3, <2>4
<1>5. CASE RestoreFresh(w)
  <2> DEFINE m == Opened(StoredManifest)
             warm == Warm({})
             o == IF Live(Agent) THEN NewOp("archive", Agent, StoredManifest, 0)
                  ELSE NewOp("fresh", Agent, m, warm[Agent])
  <2>1. Boot(w, m, warm, o) /\ flushed' = {}
    BY <1>5 DEF RestoreFresh
  <2>2. m \in Manifest /\ warm \in [Keys -> Nat] /\ warm[Agent] \in Nat
    BY <1>2
  <2> HIDE DEF m, warm
  <2>3. pending' \in [Ids \union Events -> SUBSET (States \union {Null})]
    BY <1>5 DEF RestoreFresh, TypeOK
  <2>4. /\ o \in Op /\ o.kind \in {"flush", "fresh", "archive"} /\ o.key = Agent
        /\ o.state \in Manifest /\ ~o.reading
    <3>1. CASE Live(Agent)
      BY <1>2, <1>3, <3>1
    <3>2. CASE ~Live(Agent)
      BY <1>3, <2>2, <3>2
    <3> QED BY <3>1, <3>2
  <2> HIDE DEF o
  <2> QED BY <1>1, <2>1, <2>2, <2>3, <2>4
<1>6. CASE Crash(w)
  <2>1. /\ op' \in [Writers -> Op] /\ op'[w] = NoOp
        /\ \A v \in Writers \ {w} : op'[v] = op[v]
        /\ phase' \in [Writers -> {"down", "boot", "up"}]
        /\ answer' \in [Writers -> Answers]
    BY <1>6, Constants DEF Crash, TypeOK, Answers
  <2>2. \A v \in Writers : CallKept(v)'
    BY <2>1, NoOpKept, CallKeptStep
  <2>3. Forget(w) /\ UNCHANGED <<store, copies>> /\ UNCHANGED ghosts
    BY <1>6 DEF Crash
  <2>4. StoreKept'
    BY <2>3 DEF StoreKept, TypeOK
  <2> QED BY <2>1, <2>2, <2>3, <2>4, ForgetType DEF TypeOK, ghosts
<1> QED BY <1>4, <1>5, <1>6 DEF Life

\* Every step of every writer keeps the types.
LEMMA TypeStep == ASSUME TypeOK, [Next]_vars PROVE TypeOK'
<1>1. CASE Next
  BY <1>1, CallType, StoreCallType, LifeType DEF Next
<1>2. CASE UNCHANGED vars
  BY <1>2 DEF vars, TypeOK, StoreKept, CallKept
<1> QED BY <1>1, <1>2

\* The initial states are well typed.
LEMMA TypeInit == ASSUME Init PROVE TypeOK
<1>1. store \in [Keys -> Envelope] /\ StoreKept
  <2>1. [NoManifest EXCEPT !.gen = 1] \in Manifest
    BY Constants DEF Manifest
  <2>2. [seq |-> 1, state |-> [NoManifest EXCEPT !.gen = 1]] \in Envelope
    BY <2>1 DEF Envelope, Contents
  <2> QED BY <2>1, <2>2, Constants, DurableAssumption DEF Init, StoreKept, NoRecord
<1>2. op \in [Writers -> Op] /\ \A w \in Writers : CallKept(w)
  BY Constants DEF Init, CallKept, NoOp
<1> QED BY <1>1, <1>2, Constants DEF Init, TypeOK, Answers

\* Type correctness (state/mod.rs): manifests are kept under manifest/agent
\* and nowhere else, an index names entities, a retry count never runs past
\* the policy's attempts, for any number of writers and any adapter.
THEOREM TypeCorrect == Spec => []TypeOK
BY TypeInit, TypeStep, PTL DEF Spec

-----------------------------------------------------------------------------
(* The compare-and-set discipline.  With store.on_error: halt, a life       *)
(* never believes in a seq beyond the one stored, on every key whose seqs   *)
(* no physical delete restarts; so a write that is admitted at the next     *)
(* known seq replaces exactly the record its life knew.                     *)

\* The keys whose stored seq only grows: the manifest is never deleted, and
\* where the adapter has no delete a tombstone keeps counting.
Tracked == IF HasDelete THEN {Agent} ELSE Keys

SeqKnown(w) ==
  /\ \A k \in Tracked : seqs[w][k] <= store[k].seq
  /\ op[w].warmed => op[w].seq = seqs[w][op[w].key] + 1
  /\ op[w].kind = "delete" => HasDelete
  /\ op[w].kind = "create" => ~op[w].warmed
  /\ op[w].reading /\ op[w].key \in Tracked => op[w].latest <= store[op[w].key].seq

SeqInv == TypeOK /\ \A w \in Writers : SeqKnown(w)

\* A step is one writer's: the others keep their memory and their call.
LEMMA OneWriter ==
  ASSUME TypeOK, NEW w \in Writers, Call(w) \/ StoreCall(w) \/ Life(w),
         NEW v \in Writers, v # w
  PROVE  /\ phase'[v] = phase[v] /\ op'[v] = op[v]
         /\ seqs'[v] = seqs[v] /\ man'[v] = man[v]
<1> USE DEF TypeOK
<1>1. CASE Call(w)
  BY <1>1 DEF Call, Put, Create, Delete, Get, Flush, ManifestUpdate, BeginEntity, Begin, mem
<1>2. ASSUME NEW ans, Fail(w, ans)
      PROVE  /\ phase'[v] = phase[v] /\ op'[v] = op[v]
             /\ seqs'[v] = seqs[v] /\ man'[v] = man[v]
  BY <1>2 DEF Fail, Done, Forget, mem
<1>3. ASSUME NEW ix, Made(w, ix)
      PROVE  /\ phase'[v] = phase[v] /\ op'[v] = op[v]
             /\ seqs'[v] = seqs[v] /\ man'[v] = man[v]
  BY <1>3 DEF Made, Done
<1>4. CASE PutOk(w) \/ PutFailed(w) \/ PutConflict(w) \/ CreateOurs(w) \/ CreateReadFailed(w)
  BY <1>2, <1>3, <1>4 DEF PutOk, PutFailed, PutConflict, CreateOurs, CreateReadFailed
<1>5. CASE PutRetried(w) \/ PutAdopts(w) \/ CreateTaken(w) \/ CreatePastTombstone(w)
  BY <1>5 DEF PutRetried, PutAdopts, CreateTaken, CreatePastTombstone, mem
<1>6. CASE CreateOccupied(w)
  BY <1>6 DEF CreateOccupied, Done
<1>7. CASE DeleteOk(w)
  BY <1>7 DEF DeleteOk, Done
<1>8. CASE DeleteFailed(w)
  BY <1>2, <1>8 DEF DeleteFailed, mem
<1>9. CASE ArchiveOk(w) \/ ArchiveFailed(w)
  BY <1>2, <1>9 DEF ArchiveOk, ArchiveFailed, mem
<1>10. CASE Life(w)
  BY <1>10 DEF Life, Restore, RestoreFresh, Boot, Crash, Forget
<1> QED BY <1>1, <1>4, <1>5, <1>6, <1>7, <1>8, <1>9, <1>10 DEF StoreCall

\* How the store can change: not at all, by the write in flight, admitted,
\* or by the physical delete of an entity or event.
LEMMA StoreChange ==
  ASSUME TypeOK, NEW w \in Writers, Call(w) \/ StoreCall(w) \/ Life(w)
  PROVE  \/ store' = store
         \/ Writing(w) /\ ~op[w].reading /\ Admits(w) /\ Apply(w)
         \/ op[w].kind = "delete" /\ store' = [store EXCEPT ![op[w].key] = NoRecord]
<1>1. CASE Call(w)
  BY <1>1 DEF Call, Put, Create, Delete, Get, Flush, ManifestUpdate, BeginEntity, Begin
<1>2. CASE Life(w)
  BY <1>2 DEF Life, Restore, RestoreFresh, Boot, Crash
<1>3. CASE PutOk(w) \/ PutRetried(w) \/ PutFailed(w)
  BY <1>3 DEF PutOk, PutRetried, PutFailed
<1>4. CASE PutAdopts(w) \/ PutConflict(w) \/ CreateTaken(w) \/ CreateOurs(w)
           \/ CreatePastTombstone(w) \/ CreateOccupied(w) \/ CreateReadFailed(w)
           \/ ArchiveOk(w) \/ ArchiveFailed(w)
  BY <1>4 DEF PutAdopts, PutConflict, CreateTaken, CreateOurs, CreatePastTombstone,
              CreateOccupied, CreateReadFailed, ArchiveOk, ArchiveFailed
<1>5. CASE DeleteOk(w) \/ DeleteFailed(w)
  BY <1>5 DEF DeleteOk, DeleteFailed
<1> QED BY <1>1, <1>2, <1>3, <1>4, <1>5 DEF StoreCall

\* A tracked key's stored seq never shrinks.
LEMMA SeqGrows ==
  ASSUME SeqInv, NEW w \in Writers, Call(w) \/ StoreCall(w) \/ Life(w),
         NEW k \in Tracked
  PROVE  store[k].seq \in Nat /\ store'[k].seq \in Nat /\ store[k].seq <= store'[k].seq
<1>1. TypeOK /\ k \in Keys
  BY Constants DEF SeqInv, Tracked
<1>2. store[k] \in Envelope /\ store[k].seq \in Nat /\ store \in [Keys -> Envelope]
  BY <1>1 DEF TypeOK, Envelope
<1>3. op[w].key \in Keys /\ op[w].seq \in Nat /\ CallKept(w)
  BY <1>1, OpType
<1>4. CASE store' = store
  BY <1>2, <1>4
<1>5. CASE Writing(w) /\ Admits(w) /\ Apply(w)
  BY <1>2, <1>3, <1>5 DEF Admits, Apply
<1>6. CASE op[w].kind = "delete" /\ store' = [store EXCEPT ![op[w].key] = NoRecord]
  <2>1. HasDelete /\ k = Agent
    BY <1>6 DEF SeqInv, SeqKnown, Tracked
  <2>2. op[w].key # Agent
    BY <1>3, <1>6, DurableAssumption DEF CallKept
  <2> QED BY <1>2, <1>6, <2>1, <2>2
<1> QED BY <1>1, <1>4, <1>5, <1>6, StoreChange

\* The stepping writer still believes only in seqs the store has reached.
LEMMA SeqKnownStep ==
  ASSUME SeqInv, OnError = "halt", NEW w \in Writers,
         Call(w) \/ StoreCall(w) \/ Life(w)
  PROVE  SeqKnown(w)'
<1>1. /\ TypeOK /\ TypeOK' /\ SeqKnown(w) /\ Tracked \subseteq Keys /\ CallKept(w)
      /\ op[w].key \in Keys /\ op[w].seq \in Nat /\ op[w].latest \in Nat
      /\ store[op[w].key].seq \in Nat
  <2>1. TypeOK /\ SeqKnown(w)
    BY DEF SeqInv
  <2> QED BY <2>1, TypeStep, OpType, Constants DEF Next, Tracked
<1>2. \A k \in Tracked : /\ store[k].seq \in Nat /\ store'[k].seq \in Nat
                          /\ store[k].seq <= store'[k].seq /\ seqs[w][k] \in Nat
  BY <1>1, SeqGrows DEF TypeOK
\* The seqs this life knows are as before.
<1>3. ASSUME seqs'[w] = seqs[w]
      PROVE  \A k \in Tracked : seqs'[w][k] <= store'[k].seq
  BY <1>1, <1>2, <1>3 DEF SeqKnown
\* A life that ended knows nothing.
<1>4. ASSUME seqs'[w] = [k \in Keys |-> 0]
      PROVE  \A k \in Tracked : seqs'[w][k] <= store'[k].seq
  BY <1>1, <1>2, <1>4
\* One seq was learned, and the store had reached it.
<1>4a. ASSUME NEW j \in Keys, NEW n \in Nat, seqs'[w] = [seqs[w] EXCEPT ![j] = n],
              j \in Tracked => n <= store'[j].seq
       PROVE  \A k \in Tracked : seqs'[w][k] <= store'[k].seq
  <2>1. seqs[w] \in [Keys -> Nat]
    BY <1>1 DEF TypeOK
  <2>2. \A k \in Tracked : seqs[w][k] <= store[k].seq
    BY <1>1 DEF SeqKnown
  <2> SUFFICES ASSUME NEW k \in Tracked PROVE seqs'[w][k] <= store'[k].seq
    OBVIOUS
  <2>3. CASE k = j
    BY <1>1, <1>4a, <2>1, <2>3
  <2>4. CASE k # j
    <3>1. k \in Keys /\ seqs'[w][k] = seqs[w][k]
      BY <1>1, <1>4a, <2>1, <2>4
    <3> QED BY <1>2, <2>2, <3>1
  <2> QED BY <2>3, <2>4
<1>5. ASSUME op'[w] = NoOp, \A k \in Tracked : seqs'[w][k] <= store'[k].seq
      PROVE  SeqKnown(w)'
  BY <1>5 DEF SeqKnown, NoOp, Tracked
<1>6. ASSUME NEW kind, NEW k, NEW s, Begin(w, kind, k, s),
             kind \in Kinds, k \in Keys, s \in Contents, kind = "delete" => HasDelete
      PROVE  SeqKnown(w)'
  <2>1. op'[w] = NewOp(kind, k, s, seqs[w][k]) /\ seqs'[w] = seqs[w]
    BY <1>1, <1>6 DEF Begin, TypeOK, mem
  <2>2. seqs[w][k] \in Nat
    BY <1>1, <1>6 DEF TypeOK
  <2>3. /\ op'[w].kind = kind /\ op'[w].key = k /\ ~op'[w].reading
        /\ (op'[w].warmed => op'[w].seq = seqs'[w][op'[w].key] + 1)
        /\ (kind = "create" => ~op'[w].warmed)
    BY <1>6, <2>1, <2>2, NewOpType
  <2> QED BY <1>3, <1>6, <2>1, <2>3 DEF SeqKnown, Tracked
<1>7. ASSUME NEW ans, Fail(w, ans) PROVE SeqKnown(w)'
  <2>1. op'[w] = NoOp
    BY <1>1, <1>7 DEF Fail, Done, TypeOK
  <2>2. seqs'[w] = seqs[w] \/ seqs'[w] = [k \in Keys |-> 0]
    BY <1>1, <1>7 DEF Fail, Forget, mem, TypeOK
  <2> QED BY <1>3, <1>4, <1>5, <2>1, <2>2
<1>8. ASSUME Made(w, TRUE), store'[op[w].key].seq = op[w].seq PROVE SeqKnown(w)'
  <2>1. op'[w] = NoOp /\ seqs'[w] = [seqs[w] EXCEPT ![op[w].key] = op[w].seq]
    BY <1>1, <1>8 DEF Made, Done, TypeOK
  <2>2. \A k \in Tracked : seqs'[w][k] <= store'[k].seq
    BY <1>1, <1>2, <1>8, <1>4a, <2>1
  <2> QED BY <1>5, <2>1, <2>2
<1>9. CASE Call(w)
  <2>1. ASSUME NEW k \in Ids \union Events, Get(w, k) PROVE SeqKnown(w)'
    <3>1. op'[w] = NoOp /\ store' = store /\ k \in Keys
      BY <1>1, <2>1, Constants DEF Get, Idle
    <3>2. seqs'[w] = [seqs[w] EXCEPT ![k] = store[k].seq]
      BY <1>1, <2>1 DEF Get, TypeOK
    <3>3. \A j \in Tracked : seqs'[w][j] <= store'[j].seq
      BY <1>1, <1>2, <3>1, <3>2 DEF SeqKnown, TypeOK
    <3> QED BY <1>5, <3>1, <3>3
  <2>2. CASE ManifestUpdate(w)
    BY <1>3, <1>5, <2>2 DEF ManifestUpdate, Idle
  <2>3. CASE Flush(w)
    <3>1. man[w] \in Contents /\ "flush" \in Kinds
      BY <1>1 DEF TypeOK, Contents, Kinds
    <3> QED BY <1>6, <2>3, <3>1, Constants DEF Flush
  <2>4. ASSUME NEW k \in Ids, NEW s \in States, Put(w, k, s) PROVE SeqKnown(w)'
    BY <1>6, <2>4, Constants DEF Put, BeginEntity, Contents, Kinds
  <2>5. ASSUME NEW k \in Events, NEW s \in States, Create(w, k, s) PROVE SeqKnown(w)'
    BY <1>6, <2>5, Constants DEF Create, BeginEntity, Contents, Kinds
  <2>6. ASSUME NEW k \in Ids \union Events, Delete(w, k) PROVE SeqKnown(w)'
    BY <1>6, <2>6, Constants DEF Delete, BeginEntity, Contents, Kinds
  <2> QED BY <1>9, <2>1, <2>2, <2>3, <2>4, <2>5, <2>6 DEF Call
<1>10. CASE PutOk(w)
  <2>1. store'[op[w].key].seq = op[w].seq
    BY <1>1, <1>10 DEF PutOk, Apply, TypeOK
  <2> QED BY <1>8, <1>10, <2>1 DEF PutOk
<1>11. CASE PutRetried(w)
  <2>1. /\ seqs'[w] = seqs[w] /\ op'[w] = [op[w] EXCEPT !.tries = @ - 1]
        /\ ~op[w].reading
    BY <1>1, <1>11 DEF PutRetried, mem, TypeOK
  <2>2. /\ op'[w].warmed = op[w].warmed /\ op'[w].seq = op[w].seq
        /\ op'[w].key = op[w].key /\ op'[w].kind = op[w].kind /\ ~op'[w].reading
    BY <1>1, <2>1 DEF TypeOK, Op
  <2> QED BY <1>1, <1>3, <2>1, <2>2 DEF SeqKnown, Tracked
<1>12. CASE PutFailed(w)
  BY <1>7, <1>12 DEF PutFailed
<1>13. CASE PutAdopts(w)
  <2>1. /\ seqs'[w] = [seqs[w] EXCEPT ![op[w].key] = store[op[w].key].seq]
        /\ store' = store
        /\ op'[w].seq = store[op[w].key].seq + 1 /\ op'[w].key = op[w].key
        /\ op'[w].kind = op[w].kind /\ op'[w].reading = op[w].reading
        /\ op[w].kind # "create" /\ Writing(w)
    BY <1>1, <1>13 DEF PutAdopts, TypeOK, Op
  <2>2. \A k \in Tracked : seqs'[w][k] <= store'[k].seq
    BY <1>1, <1>2, <2>1 DEF SeqKnown, TypeOK
  <2>3. op'[w].seq = seqs'[w][op'[w].key] + 1
    BY <1>1, <2>1 DEF TypeOK
  <2>4. ~op'[w].reading /\ op'[w].kind \notin {"delete", "create"}
    BY <1>1, <2>1 DEF CallKept, Writing
  <2> QED BY <2>2, <2>3, <2>4 DEF SeqKnown, Tracked
<1>14. CASE PutConflict(w) \/ CreateReadFailed(w)
  BY <1>7, <1>14 DEF PutConflict, CreateReadFailed
<1>15. CASE CreateTaken(w)
  <2>1. /\ seqs'[w] = seqs[w] /\ store' = store
        /\ op'[w].latest = store[op[w].key].seq /\ op'[w].key = op[w].key
        /\ op'[w].kind = op[w].kind /\ op'[w].seq = op[w].seq
        /\ op'[w].warmed = op[w].warmed
    BY <1>1, <1>15 DEF CreateTaken, mem, TypeOK, Op
  <2> QED BY <1>1, <1>3, <2>1 DEF SeqKnown, Tracked
<1>16. CASE CreateOurs(w)
  <2>1. store'[op[w].key].seq = op[w].seq
    BY <1>16 DEF CreateOurs, Ours
  <2> QED BY <1>8, <1>16, <2>1 DEF CreateOurs
<1>17. CASE CreatePastTombstone(w)
  <2>1. /\ seqs'[w] = seqs[w] /\ op'[w].kind = op[w].kind /\ ~op'[w].reading
        /\ op'[w].warmed = op[w].warmed /\ op[w].reading
    BY <1>1, <1>17 DEF CreatePastTombstone, mem, TypeOK, Op
  <2>2. ~op[w].warmed
    BY <1>1, <2>1 DEF CallKept, SeqKnown
  <2> QED BY <1>1, <1>3, <2>1, <2>2 DEF SeqKnown, Tracked
<1>18. CASE CreateOccupied(w)
  <2>1. op'[w] = NoOp /\ store' = store /\ op[w].reading
    BY <1>1, <1>18 DEF CreateOccupied, Done, TypeOK
  <2>2. seqs'[w] = seqs[w] \/ seqs'[w] = [seqs[w] EXCEPT ![op[w].key] = op[w].latest]
    BY <1>1, <1>18 DEF CreateOccupied, TypeOK
  <2>3. \A k \in Tracked : seqs'[w][k] <= store'[k].seq
    BY <1>1, <1>2, <2>1, <2>2 DEF SeqKnown, TypeOK
  <2> QED BY <1>5, <2>1, <2>3
<1>19. CASE DeleteOk(w)
  <2>1. op'[w] = NoOp /\ seqs'[w] = [seqs[w] EXCEPT ![op[w].key] = 0]
    BY <1>1, <1>19 DEF DeleteOk, Done, TypeOK
  <2>2. op[w].key \in Tracked => 0 <= store'[op[w].key].seq
    BY <1>2
  <2>3. \A k \in Tracked : seqs'[w][k] <= store'[k].seq
    BY <1>1, <1>4a, <2>1, <2>2
  <2> QED BY <1>5, <2>1, <2>3
<1>20. CASE DeleteFailed(w)
  <2>1. CASE op[w].tries > 1
    <3>1. /\ seqs'[w] = seqs[w] /\ op'[w] = [op[w] EXCEPT !.tries = @ - 1]
          /\ op[w].kind = "delete"
      BY <1>1, <1>20, <2>1 DEF DeleteFailed, mem, TypeOK
    <3>2. /\ op'[w].warmed = op[w].warmed /\ op'[w].seq = op[w].seq
          /\ op'[w].key = op[w].key /\ op'[w].kind = op[w].kind
          /\ op'[w].reading = op[w].reading
      BY <1>1, <3>1 DEF TypeOK, Op
    <3>3. ~op[w].reading
      BY <1>1, <3>1 DEF CallKept
    <3> QED BY <1>1, <1>3, <3>1, <3>2, <3>3 DEF SeqKnown, Tracked
  <2>2. CASE ~(op[w].tries > 1)
    BY <1>7, <1>20, <2>2 DEF DeleteFailed
  <2> QED BY <2>1, <2>2
<1>21. ASSUME op'[w] = NewOp("fresh", Agent, man[w], seqs[w][Agent]), seqs'[w] = seqs[w]
       PROVE  SeqKnown(w)'
  <2>1. man[w] \in Contents /\ seqs[w][Agent] \in Nat /\ "fresh" \in Kinds /\ Agent \in Keys
    BY <1>1, Constants DEF TypeOK, Contents, Kinds
  <2>2. /\ op'[w].kind = "fresh" /\ op'[w].key = Agent /\ ~op'[w].reading
        /\ (op'[w].warmed => op'[w].seq = seqs'[w][op'[w].key] + 1)
    BY <1>21, <2>1, NewOpType
  <2> QED BY <1>3, <1>21, <2>2 DEF SeqKnown, Tracked
<1>22. CASE ArchiveOk(w) \/ ArchiveFailed(w)
  BY <1>1, <1>7, <1>21, <1>22 DEF ArchiveOk, ArchiveFailed, mem, TypeOK
<1>23. CASE Life(w)
  <2>1. CASE Crash(w)
    BY <1>1, <1>4, <1>5, <2>1 DEF Crash, Forget, TypeOK
  <2>2. ASSUME NEW read, seqs'[w] = Warm(read), store' = store
        PROVE  \A k \in Tracked : seqs'[w][k] <= store'[k].seq
    BY <1>1, <1>2, <2>2 DEF Warm
  <2>3. ASSUME NEW kind \in {"flush", "fresh", "archive"}, NEW m \in Manifest, NEW n \in Nat,
               op'[w] = NewOp(kind, Agent, m, n), kind = "archive" => n = 0,
               kind # "archive" => n = seqs'[w][Agent],
               \A k \in Tracked : seqs'[w][k] <= store'[k].seq
        PROVE  SeqKnown(w)'
    <3>1. kind \in Kinds /\ m \in Contents /\ Agent \in Keys
      BY Constants DEF Kinds, Contents
    <3>2. /\ op'[w].kind = kind /\ op'[w].key = Agent /\ ~op'[w].reading
          /\ op'[w].seq = n + 1 /\ (op'[w].warmed => n # 0)
      BY <2>3, <3>1, NewOpType
    <3>3. op'[w].warmed => op'[w].seq = seqs'[w][op'[w].key] + 1
      BY <2>3, <3>2
    <3> QED BY <2>3, <3>2, <3>3 DEF SeqKnown, Tracked
  <2>4. /\ Resumed(StoredManifest) \in Manifest /\ Opened(StoredManifest) \in Manifest
        /\ StoredManifest \in Manifest
        /\ \A read : Warm(read)[Agent] \in Nat
    BY <1>1, RestoreTypes, Constants
  <2>5. CASE Restore(w)
    <3> DEFINE m == Resumed(StoredManifest)
               warm == Warm(StoredManifest.index \union Adopts)
    <3>1. /\ seqs'[w] = warm /\ store' = store
          /\ op'[w] = NewOp("flush", Agent, m, warm[Agent])
      BY <1>1, <2>5 DEF Restore, Boot, TypeOK
    <3>2. m \in Manifest /\ warm[Agent] \in Nat
      BY <2>4
    <3>3. \A k \in Tracked : seqs'[w][k] <= store'[k].seq
      BY <2>2, <3>1
    <3> HIDE DEF m, warm
    <3> QED BY <2>3, <3>1, <3>2, <3>3
  <2>6. CASE RestoreFresh(w)
    <3> DEFINE m == Opened(StoredManifest)
               warm == Warm({})
    <3>1. /\ seqs'[w] = warm /\ store' = store
          /\ op'[w] = IF Live(Agent) THEN NewOp("archive", Agent, StoredManifest, 0)
                      ELSE NewOp("fresh", Agent, m, warm[Agent])
      BY <1>1, <2>6 DEF RestoreFresh, Boot, TypeOK
    <3>2. m \in Manifest /\ warm[Agent] \in Nat
      BY <2>4
    <3>3. \A k \in Tracked : seqs'[w][k] <= store'[k].seq
      BY <2>2, <3>1
    <3> HIDE DEF m, warm
    <3>4. CASE Live(Agent)
      BY <2>3, <2>4, <3>1, <3>3, <3>4
    <3>5. CASE ~Live(Agent)
      BY <2>3, <3>1, <3>2, <3>3, <3>5
    <3> QED BY <3>4, <3>5
  <2> QED BY <1>23, <2>1, <2>5, <2>6 DEF Life
<1> QED BY <1>9, <1>10, <1>11, <1>12, <1>13, <1>14, <1>15, <1>16, <1>17, <1>18,
           <1>19, <1>20, <1>22, <1>23 DEF StoreCall

\* Initially no life knows any seq.
LEMMA SeqInvInit == ASSUME Init PROVE SeqInv
<1>1. TypeOK
  BY TypeInit
<1>2. ASSUME NEW w \in Writers PROVE SeqKnown(w)
  <2>1. op[w] = NoOp /\ seqs[w] = [k \in Keys |-> 0] /\ Tracked \subseteq Keys
    BY Constants DEF Init, Tracked
  <2>2. \A k \in Keys : store[k].seq \in Nat
    BY <1>1 DEF TypeOK, Envelope
  <2> QED BY <2>1, <2>2 DEF SeqKnown, NoOp
<1> QED BY <1>1, <1>2 DEF SeqInv

\* Every step, of whichever writer, keeps every life's known seqs.
LEMMA SeqInvStep ==
  ASSUME SeqInv, OnError = "halt", [Next]_vars PROVE SeqInv'
<1>1. TypeOK /\ TypeOK'
  BY TypeStep DEF SeqInv
<1>2. CASE UNCHANGED vars
  BY <1>1, <1>2 DEF vars, SeqInv, SeqKnown, Tracked
<1>3. ASSUME NEW w \in Writers, Call(w) \/ StoreCall(w) \/ Life(w) PROVE SeqInv'
  <2>1. SeqKnown(w)'
    BY <1>3, SeqKnownStep
  <2>2. ASSUME NEW v \in Writers, v # w PROVE SeqKnown(v)'
    <3>1. op'[v] = op[v] /\ seqs'[v] = seqs[v] /\ SeqKnown(v)
      BY <1>1, <1>3, <2>2, OneWriter DEF SeqInv
    <3>2. \A k \in Tracked : /\ store[k].seq \in Nat /\ store'[k].seq \in Nat
                              /\ store[k].seq <= store'[k].seq /\ seqs[v][k] \in Nat
      BY <1>1, <1>3, SeqGrows, Constants DEF TypeOK, Tracked
    <3>3. op[v].latest \in Nat
      BY <1>1, OpType
    <3>4. \A k \in Tracked : seqs'[v][k] <= store'[k].seq
      BY <3>1, <3>2 DEF SeqKnown
    <3>5. op'[v].reading /\ op'[v].key \in Tracked => op'[v].latest <= store'[op'[v].key].seq
      BY <3>1, <3>2, <3>3 DEF SeqKnown
    <3> QED BY <3>1, <3>4, <3>5 DEF SeqKnown, Tracked
  <2> QED BY <1>1, <2>1, <2>2 DEF SeqInv
<1> QED BY <1>2, <1>3 DEF Next

\* No update is lost (state/mod.rs, Durable::write): for any number of
\* writers under one identity, on any adapter whose deletes leave tombstones
\* and with store.on_error: halt, an accepted write at a seq its life knew
\* replaces exactly the record that life had last read or written.
THEOREM LostUpdateFree ==
  ASSUME ~HasDelete, OnError = "halt" PROVE Spec => NoLostUpdate
<1>1. SeqInv /\ [Next]_vars =>
        [\A w \in Writers : PutOk(w) /\ op[w].warmed =>
            store[op[w].key].seq = seqs[w][op[w].key]]_vars
  <2> SUFFICES ASSUME SeqInv, NEW w \in Writers, PutOk(w), op[w].warmed
               PROVE  store[op[w].key].seq = seqs[w][op[w].key]
    OBVIOUS
  <2>1. /\ TypeOK /\ op[w].key \in Keys /\ Tracked = Keys
        /\ op[w].seq = seqs[w][op[w].key] + 1
        /\ seqs[w][op[w].key] <= store[op[w].key].seq
    BY OpType DEF SeqInv, SeqKnown, Tracked
  <2>2. seqs[w][op[w].key] \in Nat /\ store[op[w].key].seq \in Nat
    BY <2>1 DEF TypeOK, Envelope
  <2>3. op[w].seq > store[op[w].key].seq
    BY DEF PutOk, Admits
  <2> QED BY <2>1, <2>2, <2>3
<1> QED BY <1>1, SeqInvInit, SeqInvStep, PTL DEF Spec, NoLostUpdate

-----------------------------------------------------------------------------
(* Fencing.  Once the store holds a manifest, every start reads its seq, so *)
(* every flush is a warmed write; a life whose known seq is still the       *)
(* stored one is of the stored generation or later, and any other life's    *)
(* flush is refused.                                                        *)

Fence(w) ==
  /\ phase[w] = "down" => op[w] = NoOp
  /\ phase[w] # "down" => seqs[w][Agent] # 0
  /\ phase[w] # "down" /\ seqs[w][Agent] = store[Agent].seq =>
       man[w].gen >= StoredManifest.gen
  /\ op[w].kind \in {"flush", "fresh"} =>
       op[w].warmed /\ op[w].state.gen = man[w].gen

FenceInv == SeqInv /\ Live(Agent) /\ store[Agent].seq # 0 /\ \A w \in Writers : Fence(w)

\* A step leaves the stored manifest alone, or it is an admitted flush, of a
\* life that still knew the stored seq and so of no earlier generation.
LEMMA ManifestChange ==
  ASSUME FenceInv, NEW w \in Writers, Call(w) \/ StoreCall(w) \/ Life(w)
  PROVE  \/ store'[Agent] = store[Agent]
         \/ /\ phase[w] # "down" /\ op[w].key = Agent
            /\ op[w].kind \in {"flush", "fresh"}
            /\ store'[Agent] = [seq |-> op[w].seq, state |-> op[w].state]
            /\ op[w].state \in Manifest
            /\ op[w].seq > store[Agent].seq
            /\ op[w].state.gen = man[w].gen /\ man[w].gen >= StoredManifest.gen
<1>1. /\ TypeOK /\ SeqKnown(w) /\ Fence(w) /\ CallKept(w)
      /\ op[w].key \in Keys /\ op[w].seq \in Nat
      /\ store[Agent].seq \in Nat /\ seqs[w][Agent] \in Nat
  <2>1. TypeOK /\ SeqKnown(w) /\ Fence(w)
    BY DEF FenceInv, SeqInv
  <2> QED BY <2>1, OpType, Constants DEF TypeOK, Envelope
<1>2. CASE store' = store
  BY <1>2
<1>3. CASE op[w].kind = "delete" /\ store' = [store EXCEPT ![op[w].key] = NoRecord]
  <2>1. op[w].key # Agent
    BY <1>1, <1>3, DurableAssumption DEF CallKept
  <2> QED BY <1>1, <1>3, <2>1 DEF TypeOK
<1>4. CASE Writing(w) /\ ~op[w].reading /\ Admits(w) /\ Apply(w)
  <2>1. CASE op[w].key # Agent
    BY <1>1, <1>4, <2>1 DEF Apply, TypeOK
  <2>2. CASE op[w].key = Agent
    <3>1. op[w].kind \in {"flush", "fresh"}
      BY <1>1, <1>4, <2>2, DurableAssumption DEF CallKept, Writing
    <3>2. /\ op[w].warmed /\ op[w].state.gen = man[w].gen
          /\ op[w].state \in Manifest /\ phase[w] # "down"
      BY <1>1, <3>1 DEF Fence, NoOp, CallKept
    <3>3. /\ store'[Agent] = [seq |-> op[w].seq, state |-> op[w].state]
          /\ op[w].seq > store[Agent].seq
      BY <1>1, <1>4, <2>2, Constants DEF Apply, Admits, TypeOK
    <3>4. seqs[w][Agent] <= store[Agent].seq /\ op[w].seq = seqs[w][Agent] + 1
      BY <1>1, <2>2, <3>2, Constants DEF SeqKnown, Tracked
    <3>5. seqs[w][Agent] = store[Agent].seq
      BY <1>1, <3>3, <3>4
    <3> QED BY <1>1, <2>2, <3>1, <3>2, <3>3, <3>5 DEF Fence
  <2> QED BY <2>1, <2>2
<1> QED BY <1>1, <1>2, <1>3, <1>4, StoreChange

\* The manifest stays, and its generation does not go back.
LEMMA GenerationStep ==
  ASSUME FenceInv, NEW w \in Writers, Call(w) \/ StoreCall(w) \/ Life(w)
  PROVE  /\ Live(Agent)' /\ store'[Agent].seq # 0
         /\ StoredManifest \in Manifest /\ StoredManifest' \in Manifest
         /\ StoredManifest'.gen >= StoredManifest.gen
         /\ \/ store'[Agent] = store[Agent]
            \/ store'[Agent].seq > store[Agent].seq
<1>1. TypeOK /\ TypeOK' /\ Live(Agent) /\ store[Agent].seq \in Nat
  <2>1. TypeOK /\ Live(Agent)
    BY DEF FenceInv, SeqInv
  <2> QED BY <2>1, TypeStep, Constants DEF Next, TypeOK, Envelope
<1>2. StoredManifest \in Manifest /\ StoredManifest' \in Manifest
  BY <1>1, Constants DEF TypeOK, StoreKept, StoredManifest, Live
<1>3. StoredManifest.gen \in Nat
  BY <1>2 DEF Manifest
<1>4. CASE store'[Agent] = store[Agent]
  BY <1>1, <1>2, <1>3, <1>4 DEF FenceInv, Live, StoredManifest
<1>5. CASE store'[Agent] # store[Agent]
  <2>1. /\ store'[Agent] = [seq |-> op[w].seq, state |-> op[w].state]
        /\ op[w].state \in Manifest /\ op[w].seq > store[Agent].seq
        /\ op[w].state.gen >= StoredManifest.gen
    BY <1>5, ManifestChange
  <2>2. store'[Agent].seq = op[w].seq /\ store'[Agent].state = op[w].state
    BY <2>1
  <2>3. op[w].state # Null /\ op[w].seq \in Nat
    BY <1>1, <2>1, OpType, NullAssumption
  <2> QED BY <1>1, <1>2, <2>1, <2>2, <2>3 DEF Live, StoredManifest
<1> QED BY <1>4, <1>5

\* The stepping writer stays fenced.
LEMMA FenceStep ==
  ASSUME FenceInv, OnError = "halt", NEW w \in Writers,
         Call(w) \/ StoreCall(w) \/ Life(w)
  PROVE  Fence(w)'
<1>1. /\ TypeOK /\ TypeOK' /\ SeqKnown(w) /\ SeqKnown(w)' /\ Fence(w) /\ CallKept(w)
      /\ op[w] \in Op /\ op[w].key \in Keys /\ op[w].seq \in Nat
      /\ store[Agent].seq \in Nat /\ store'[Agent].seq \in Nat
      /\ seqs[w] \in [Keys -> Nat] /\ seqs'[w] \in [Keys -> Nat]
      /\ man[w] \in Manifest /\ man[w].gen \in Nat /\ Agent \in Keys
  <2>1. TypeOK /\ SeqInv /\ SeqKnown(w) /\ Fence(w)
    BY DEF FenceInv, SeqInv
  <2>2. TypeOK' /\ SeqKnown(w)'
    BY <2>1, TypeStep, SeqKnownStep DEF Next
  <2> QED BY <2>1, <2>2, OpType, Constants DEF TypeOK, Envelope, Manifest
<1>2. /\ Live(Agent) /\ Live(Agent)' /\ StoredManifest'.gen \in Nat /\ StoredManifest.gen \in Nat
      /\ store[Agent].seq # 0
      /\ \/ store'[Agent] = store[Agent]
         \/ store'[Agent].seq > store[Agent].seq
  BY GenerationStep DEF FenceInv, Manifest
<1>3. seqs[w][Agent] \in Nat /\ seqs[w][Agent] <= store[Agent].seq
  BY <1>1, Constants DEF SeqKnown, Tracked
\* What this life knows of the manifest is as before: if the stored seq is
\* still the known one, the stored manifest is too.
<1>4. ASSUME phase[w] # "down", seqs'[w][Agent] = seqs[w][Agent],
             man'[w].gen = man[w].gen,
             op'[w].kind \in {"flush", "fresh"} =>
                op'[w].warmed /\ op'[w].state.gen = man'[w].gen,
             phase'[w] = "down" => op'[w] = NoOp
      PROVE  Fence(w)'
  <2>1. seqs'[w][Agent] # 0
    BY <1>1, <1>4 DEF Fence
  <2>2. ASSUME seqs'[w][Agent] = store'[Agent].seq
        PROVE  man'[w].gen >= StoredManifest'.gen
    <3>1. store'[Agent] = store[Agent]
      BY <1>1, <1>2, <1>3, <1>4, <2>2
    <3>2. StoredManifest' = StoredManifest
      BY <1>2, <3>1 DEF StoredManifest
    <3> QED BY <1>1, <1>4, <2>2, <3>1, <3>2 DEF Fence
  <2> QED BY <1>4, <2>1, <2>2 DEF Fence
<1>5. ASSUME phase'[w] = "down", op'[w] = NoOp PROVE Fence(w)'
  BY <1>5 DEF Fence, NoOp
<1>6. ASSUME NEW ans, Fail(w, ans), phase[w] # "down" PROVE Fence(w)'
  <2>1. op'[w] = NoOp
    BY <1>1, <1>6 DEF Fail, Done, TypeOK
  <2>2. CASE phase[w] = "boot"
    BY <1>1, <1>5, <1>6, <2>1, <2>2 DEF Fail, TypeOK
  <2>3. CASE phase[w] # "boot"
    <3>1. seqs'[w] = seqs[w] /\ man'[w] = man[w]
      BY <1>6, <2>3 DEF Fail, mem
    <3> QED BY <1>4, <1>6, <2>1, <3>1 DEF NoOp
  <2> QED BY <2>2, <2>3
<1>7. ASSUME Made(w, TRUE), phase[w] # "down",
             op[w].key = Agent => store'[Agent] = [seq |-> op[w].seq, state |-> op[w].state],
             op[w].key = Agent => op[w].kind \in {"flush", "fresh"}
      PROVE  Fence(w)'
  <2>1. /\ op'[w] = NoOp /\ seqs'[w] = [seqs[w] EXCEPT ![op[w].key] = op[w].seq]
        /\ phase'[w] = "up"
    BY <1>1, <1>7 DEF Made, Done, TypeOK
  <2>2. man'[w].gen = man[w].gen
    BY <1>1, <1>7 DEF Made, TypeOK, Manifest
  <2>3. CASE op[w].key # Agent
    BY <1>1, <1>4, <1>7, <2>1, <2>2, <2>3 DEF NoOp
  <2>4. CASE op[w].key = Agent
    <3>1. seqs'[w][Agent] = op[w].seq /\ op[w].state.gen = man[w].gen
      BY <1>1, <1>7, <2>1, <2>4 DEF Fence
    <3>2. op[w].seq = seqs[w][Agent] + 1
      BY <1>1, <1>7, <2>4 DEF Fence, SeqKnown
    <3>3. StoredManifest'.gen = man'[w].gen
      BY <1>2, <1>7, <2>2, <2>4, <3>1 DEF StoredManifest
    <3> QED BY <1>1, <1>2, <2>1, <2>2, <3>1, <3>2, <3>3 DEF Fence, NoOp
  <2> QED BY <2>3, <2>4
\* Only a running life has a call in flight.
<1>8. op[w].kind # "none" => phase[w] # "down"
  BY <1>1 DEF Fence, NoOp
<1>9. op[w].key = Agent /\ Writing(w) => op[w].kind \in {"flush", "fresh"}
  BY <1>1, DurableAssumption DEF CallKept, Writing
<1>10. ASSUME NEW kind, NEW k, NEW s, NEW n, op'[w] = NewOp(kind, k, s, n),
              kind \in Kinds, k \in Keys, s \in Contents, n \in Nat,
              kind \in {"flush", "fresh"} => n # 0 /\ s.gen = man'[w].gen
       PROVE  op'[w].kind \in {"flush", "fresh"} =>
                op'[w].warmed /\ op'[w].state.gen = man'[w].gen
  <2>1. /\ op'[w].kind = kind /\ op'[w].state = s
        /\ (op'[w].warmed <=> kind # "create" /\ n # 0)
    BY <1>10, NewOpType
  <2> QED BY <1>10, <2>1
<1>11. ASSUME NEW kind, NEW k, NEW s, Begin(w, kind, k, s),
              kind \in Kinds, k \in Keys, s \in Contents,
              kind \in {"flush", "fresh"} => k = Agent /\ s = man[w]
       PROVE  Fence(w)'
  <2>1. /\ op'[w] = NewOp(kind, k, s, seqs[w][k]) /\ seqs'[w] = seqs[w]
        /\ man'[w] = man[w] /\ phase'[w] = "up" /\ phase[w] = "up"
    BY <1>1, <1>11 DEF Begin, Idle, TypeOK, mem
  <2>2. seqs[w][k] \in Nat /\ seqs[w][Agent] # 0
    BY <1>1, <1>11, <2>1 DEF Fence
  <2>3. op'[w].kind \in {"flush", "fresh"} =>
          op'[w].warmed /\ op'[w].state.gen = man'[w].gen
    BY <1>10, <1>11, <2>1, <2>2
  <2> QED BY <1>4, <2>1, <2>3
<1>12. CASE Call(w)
  <2>1. ASSUME NEW k \in Ids \union Events, Get(w, k) PROVE Fence(w)'
    <3>1. k # Agent /\ k \in Keys
      BY DurableAssumption, Constants
    <3>2. /\ op'[w] = NoOp /\ phase[w] = "up" /\ phase'[w] = "up" /\ man'[w] = man[w]
          /\ seqs'[w][Agent] = seqs[w][Agent]
      BY <1>1, <2>1, <3>1 DEF Get, Idle, TypeOK
    <3> QED BY <1>4, <3>2 DEF NoOp
  <2>2. CASE ManifestUpdate(w)
    BY <1>4, <2>2 DEF ManifestUpdate, Idle, NoOp
  <2>3. CASE Flush(w)
    <3>1. man[w] \in Contents /\ "flush" \in Kinds
      BY <1>1 DEF Contents, Kinds
    <3> QED BY <1>1, <1>11, <2>3, <3>1 DEF Flush
  <2>4. ASSUME NEW k \in Ids, NEW s \in States, Put(w, k, s) PROVE Fence(w)'
    BY <1>11, <2>4, Constants DEF Put, BeginEntity, Contents, Kinds
  <2>5. ASSUME NEW k \in Events, NEW s \in States, Create(w, k, s) PROVE Fence(w)'
    BY <1>11, <2>5, Constants DEF Create, BeginEntity, Contents, Kinds
  <2>6. ASSUME NEW k \in Ids \union Events, Delete(w, k) PROVE Fence(w)'
    BY <1>11, <2>6, Constants DEF Delete, BeginEntity, Contents, Kinds
  <2> QED BY <1>12, <2>1, <2>2, <2>3, <2>4, <2>5, <2>6 DEF Call
<1>13. CASE PutOk(w)
  <2>1. op[w].key = Agent => store'[Agent] = [seq |-> op[w].seq, state |-> op[w].state]
    BY <1>1, <1>13 DEF PutOk, Apply, TypeOK
  <2> QED BY <1>7, <1>8, <1>9, <1>13, <2>1 DEF PutOk, Writing
<1>14. CASE PutRetried(w)
  <2>1. /\ seqs'[w] = seqs[w] /\ man'[w] = man[w] /\ phase'[w] = phase[w]
        /\ op'[w] = [op[w] EXCEPT !.tries = @ - 1] /\ phase[w] # "down"
    BY <1>1, <1>8, <1>14 DEF PutRetried, Writing, mem, TypeOK
  <2>2. op'[w].kind = op[w].kind /\ op'[w].warmed = op[w].warmed /\ op'[w].state = op[w].state
    BY <1>1, <2>1 DEF Op
  <2> QED BY <1>1, <1>4, <2>1, <2>2 DEF Fence
<1>15. CASE PutFailed(w)
  BY <1>6, <1>8, <1>15 DEF PutFailed, Writing
<1>16. CASE PutAdopts(w)
  <2>1. /\ seqs'[w] = [seqs[w] EXCEPT ![op[w].key] = store[op[w].key].seq]
        /\ man'[w] = man[w] /\ phase'[w] = phase[w] /\ phase[w] # "down"
        /\ op'[w].kind = op[w].kind /\ op'[w].state = op[w].state
        /\ ~op[w].warmed /\ Writing(w)
    BY <1>1, <1>8, <1>16 DEF PutAdopts, Writing, TypeOK, Op
  <2>2. op[w].key # Agent /\ op[w].kind \notin {"flush", "fresh"}
    BY <1>1, <1>9, <2>1 DEF Fence
  <2> QED BY <1>1, <1>4, <2>1, <2>2
<1>17. CASE PutConflict(w)
  BY <1>6, <1>8, <1>17 DEF PutConflict, Writing
\* A create-only write is of an event.
<1>18. op[w].reading \/ op[w].kind = "create" =>
         op[w].kind = "create" /\ op[w].key # Agent /\ phase[w] # "down"
  BY <1>1, <1>8, DurableAssumption DEF CallKept
<1>19. CASE CreateTaken(w) \/ CreatePastTombstone(w)
  <2>1. /\ seqs'[w] = seqs[w] /\ man'[w] = man[w] /\ phase'[w] = phase[w]
        /\ op'[w].kind = op[w].kind /\ (op[w].reading \/ op[w].kind = "create")
    BY <1>1, <1>19 DEF CreateTaken, CreatePastTombstone, mem, TypeOK, Op
  <2> QED BY <1>4, <1>18, <2>1
<1>20. CASE CreateOurs(w)
  BY <1>7, <1>18, <1>20 DEF CreateOurs
<1>21. CASE CreateOccupied(w)
  <2>1. /\ seqs'[w] = seqs[w] \/ seqs'[w] = [seqs[w] EXCEPT ![op[w].key] = op[w].latest]
        /\ man'[w] = man[w] /\ phase'[w] = phase[w] /\ op'[w] = NoOp /\ op[w].reading
    BY <1>1, <1>21 DEF CreateOccupied, Done, TypeOK
  <2>2. seqs'[w][Agent] = seqs[w][Agent]
    BY <1>1, <1>18, <2>1
  <2> QED BY <1>4, <1>18, <2>1, <2>2 DEF NoOp
<1>22. CASE CreateReadFailed(w)
  BY <1>6, <1>18, <1>22 DEF CreateReadFailed
<1>23. CASE DeleteOk(w)
  <2>1. op[w].key # Agent /\ phase[w] # "down"
    BY <1>1, <1>8, <1>23, DurableAssumption DEF CallKept, DeleteOk
  <2>2. /\ seqs'[w] = [seqs[w] EXCEPT ![op[w].key] = 0]
        /\ phase'[w] = phase[w] /\ op'[w] = NoOp
    BY <1>1, <1>23 DEF DeleteOk, Done, TypeOK
  <2>3. man'[w].gen = man[w].gen
    BY <1>1, <1>23 DEF DeleteOk, TypeOK, Manifest
  <2> QED BY <1>1, <1>4, <2>1, <2>2, <2>3 DEF NoOp
<1>24. CASE DeleteFailed(w)
  <2>1. CASE op[w].tries > 1
    <3>1. /\ seqs'[w] = seqs[w] /\ man'[w] = man[w] /\ phase'[w] = phase[w]
          /\ op'[w].kind = op[w].kind /\ op[w].kind = "delete"
      BY <1>1, <1>24, <2>1 DEF DeleteFailed, mem, TypeOK, Op
    <3> QED BY <1>4, <1>8, <3>1
  <2>2. CASE ~(op[w].tries > 1)
    BY <1>6, <1>8, <1>24, <2>2 DEF DeleteFailed
  <2> QED BY <2>1, <2>2
<1>25. CASE ArchiveOk(w)
  <2>1. /\ seqs'[w] = seqs[w] /\ man'[w] = man[w] /\ phase'[w] = phase[w]
        /\ op'[w] = NewOp("fresh", Agent, man[w], seqs[w][Agent]) /\ phase[w] # "down"
    BY <1>1, <1>8, <1>25 DEF ArchiveOk, mem, TypeOK
  <2>2. man[w] \in Contents /\ "fresh" \in Kinds /\ seqs[w][Agent] # 0
    BY <1>1, <2>1 DEF Contents, Kinds, Fence
  <2>3. op'[w].kind \in {"flush", "fresh"} =>
          op'[w].warmed /\ op'[w].state.gen = man'[w].gen
    BY <1>1, <1>10, <2>1, <2>2
  <2> QED BY <1>4, <2>1, <2>3
<1>26. CASE ArchiveFailed(w)
  BY <1>6, <1>8, <1>26 DEF ArchiveFailed
<1>27. CASE Crash(w)
  BY <1>1, <1>5, <1>27 DEF Crash, TypeOK
\* A start reads the stored manifest and seq, and its generation is the next.
<1>28. ASSUME NEW m \in Manifest, NEW read, NEW o, Boot(w, m, Warm(read), o),
              m.gen = StoredManifest.gen + 1,
              o.kind \in {"flush", "fresh"} =>
                 o = NewOp(o.kind, Agent, m, Warm(read)[Agent])
       PROVE  Fence(w)'
  <2>1. /\ store' = store /\ seqs'[w] = Warm(read) /\ man'[w] = m /\ op'[w] = o
        /\ phase'[w] = "boot"
    BY <1>1, <1>28 DEF Boot, TypeOK
  <2>2. Warm(read)[Agent] = store[Agent].seq
    BY <1>1, <1>2 DEF Warm, Visible
  <2>3. StoredManifest' = StoredManifest
    BY <2>1 DEF StoredManifest, Live
  <2>4. op'[w].kind \in {"flush", "fresh"} =>
          op'[w].warmed /\ op'[w].state.gen = man'[w].gen
    <3> SUFFICES ASSUME o.kind \in {"flush", "fresh"}
                 PROVE  op'[w].warmed /\ op'[w].state.gen = man'[w].gen
      BY <2>1
    <3>1. o.kind \in Kinds /\ m \in Contents /\ Warm(read)[Agent] \in Nat
      BY <1>1, <2>2 DEF Kinds, Contents
    <3> QED BY <1>1, <1>2, <1>10, <1>28, <2>1, <2>2, <3>1
  <2> QED BY <1>1, <1>2, <1>28, <2>1, <2>2, <2>3, <2>4 DEF Fence
<1>29. /\ Resumed(StoredManifest) \in Manifest /\ Opened(StoredManifest) \in Manifest
       /\ StoredManifest \in Manifest
       /\ Resumed(StoredManifest).gen = StoredManifest.gen + 1
       /\ Opened(StoredManifest).gen = StoredManifest.gen + 1
  BY <1>1, RestoreTypes DEF Resumed, Opened
<1>30. CASE Restore(w)
  <2> DEFINE m == Resumed(StoredManifest)
             read == StoredManifest.index \union Adopts
             o == NewOp("flush", Agent, m, Warm(read)[Agent])
  <2>1. Boot(w, m, Warm(read), o)
    BY <1>30 DEF Restore
  <2>2. m \in Manifest /\ m.gen = StoredManifest.gen + 1 /\ Warm(read)[Agent] \in Nat
    BY <1>1, <1>29, RestoreTypes
  <2> HIDE DEF m, read
  <2>3. "flush" \in Kinds /\ m \in Contents
    BY <2>2 DEF Kinds, Contents
  <2>4. o.kind = "flush"
    BY <1>1, <2>2, <2>3, NewOpType
  <2> QED BY <1>28, <2>1, <2>2, <2>4
<1>31. CASE RestoreFresh(w)
  <2> DEFINE m == Opened(StoredManifest)
             o == NewOp("archive", Agent, StoredManifest, 0)
  <2>1. Boot(w, m, Warm({}), o)
    BY <1>2, <1>31 DEF RestoreFresh
  <2>2. m \in Manifest /\ m.gen = StoredManifest.gen + 1
    BY <1>29
  <2>3. o.kind = "archive"
    BY <1>1, <1>29, NewOpType DEF Kinds, Contents
  <2> HIDE DEF m, o
  <2> QED BY <1>28, <2>1, <2>2, <2>3
<1> QED BY <1>12, <1>13, <1>14, <1>15, <1>16, <1>17, <1>19, <1>20, <1>21, <1>22,
           <1>23, <1>24, <1>25, <1>26, <1>27, <1>30, <1>31 DEF StoreCall, Life

\* Every writer stays fenced: another life's flush moves the stored seq on.
LEMMA FenceInvStep ==
  ASSUME FenceInv, OnError = "halt", [Next]_vars PROVE FenceInv'
<1>1. SeqInv /\ SeqInv'
  BY SeqInvStep DEF FenceInv
<1>2. CASE UNCHANGED vars
  BY <1>1, <1>2 DEF vars, FenceInv, Fence, Live, StoredManifest
<1>3. ASSUME NEW w \in Writers, Call(w) \/ StoreCall(w) \/ Life(w) PROVE FenceInv'
  <2>1. /\ Live(Agent)' /\ store'[Agent].seq # 0
        /\ \/ store'[Agent] = store[Agent]
           \/ store'[Agent].seq > store[Agent].seq
    BY <1>3, GenerationStep
  <2>2. ASSUME NEW v \in Writers, v # w PROVE Fence(v)'
    <3>1. /\ phase'[v] = phase[v] /\ op'[v] = op[v]
          /\ seqs'[v] = seqs[v] /\ man'[v] = man[v] /\ Fence(v) /\ SeqKnown(v)
      BY <1>1, <1>3, <2>2, OneWriter DEF FenceInv, SeqInv
    <3>2. /\ seqs[v][Agent] \in Nat /\ store[Agent].seq \in Nat /\ store'[Agent].seq \in Nat
          /\ seqs[v][Agent] <= store[Agent].seq
      BY <1>1, <3>1, Constants DEF SeqInv, SeqKnown, Tracked, TypeOK, Envelope
    <3>3. CASE store'[Agent] = store[Agent]
      BY <3>1, <3>3 DEF Fence, StoredManifest, Live
    <3>4. CASE store'[Agent].seq > store[Agent].seq
      BY <3>1, <3>2, <3>4 DEF Fence
    <3> QED BY <2>1, <3>3, <3>4
  <2> QED BY <1>1, <1>3, <2>1, <2>2, FenceStep DEF FenceInv
<1> QED BY <1>2, <1>3 DEF Next

\* The split-brain guard (state/mod.rs, docs/scaling.md): once a store holds
\* a manifest, however many processes start, resume, run with --fresh, retry
\* and die under one identity, the stored generation never goes back.
THEOREM Fencing ==
  ASSUME HadManifest, OnError = "halt" PROVE Spec => GenerationNeverRegresses
<1>1. Init => FenceInv
  <2> SUFFICES ASSUME Init PROVE FenceInv
    OBVIOUS
  <2>1. store[Agent] = [seq |-> 1, state |-> [NoManifest EXCEPT !.gen = 1]]
    BY Constants DEF Init
  <2>2. [NoManifest EXCEPT !.gen = 1] \in Manifest
    BY Constants DEF Manifest
  <2>3. Live(Agent) /\ store[Agent].seq # 0
    BY <2>1, <2>2, NullAssumption DEF Live
  <2>4. \A w \in Writers : Fence(w)
    BY DEF Init, Fence, NoOp
  <2> QED BY <2>3, <2>4, SeqInvInit DEF FenceInv
<1>2. FenceInv /\ [Next]_vars => FenceInv'
  BY FenceInvStep
<1>3. FenceInv /\ [Next]_vars =>
        [Live(Agent) => Live(Agent)' /\ StoredManifest'.gen >= StoredManifest.gen]_vars
  BY GenerationStep DEF Next
<1> QED BY <1>1, <1>2, <1>3, PTL DEF Spec, GenerationNeverRegresses

-----------------------------------------------------------------------------
(* One process.  With a single writer and store.on_error: halt nothing      *)
(* comes between a call's reads and its write, so what a record holds is    *)
(* known up to the answers that were lost.                                  *)

OneProcess == \A v, w \in Writers : v = w
Sole == OneProcess /\ OnError = "halt"

\* A record is numbered from 1, and with a delete there are no tombstones.
Numbered ==
  \A k \in Ids \union Events : /\ store[k].seq = 0 => ~Live(k)
                               /\ HasDelete /\ store[k].seq # 0 => Live(k)

\* A record that no --fresh abandoned is what was acknowledged or begun since.
StoredSound ==
  /\ ~AllowFresh => abandoned = {}
  /\ \A k \in (Ids \union Events) \ abandoned :
       store[k].state \in {accepted[k]} \union pending[k]

\* The call in flight carries what it may leave in the store, and a start
\* writes the manifest it holds.
CallSound(w) ==
  LET o == op[w] IN
  /\ o.kind \in {"put", "create", "tombstone", "delete"} =>
       phase[w] = "up" /\ o.state \in pending[o.key]
  /\ o.kind \in {"put", "create"} => o.state # Null
  /\ o.kind \in {"tombstone", "delete"} => o.state = Null
  /\ o.kind = "tombstone" => ~HasDelete
  /\ o.kind \in {"flush", "fresh"} => o.state = man[w]
  /\ phase[w] = "down" => o.kind = "none"
  /\ phase[w] = "boot" => o.kind \in {"flush", "fresh", "archive"}

\* A create-only write: its key is free, or taken by this very write, or by
\* another record, which it will find when it reads back.
CreateSound(w) ==
  LET o == op[w]
      r == store[o.key]
  IN  o.kind = "create" =>
        /\ ~o.past => o.seq = 1
        /\ o.past => (o.seq > r.seq /\ ~Live(o.key) /\ ~o.reading) \/ Ours(w)
        /\ r.state = o.state => r.seq = o.seq
        /\ o.reading => o.latest = r.seq /\ o.seq <= r.seq

\* A --fresh in progress: everything is being abandoned, and the manifest
\* that goes is copied before it is replaced.
FreshSound(w) ==
  LET o == op[w] IN
  o.kind \in {"fresh", "archive"} =>
    /\ AllowFresh /\ phase[w] = "boot" /\ flushed = {}
    /\ \A k \in Ids : Null \in pending[k]
    /\ man[w].index = {}
    /\ HasList => \A k \in Ids : Live(k) => k \in man[w].retired
    /\ o.kind = "archive" => Live(Agent) /\ o.state = store[Agent].state
    /\ o.kind = "fresh" /\ Live(Agent) =>
         store[Agent].state \in copies \union {o.state}

\* A manifest leads no restore to what a --fresh abandoned.
Leaves(m) ==
  /\ ~AllowFresh => m.retired = {}
  /\ \A k \in abandoned : pending[k] = {} /\ Live(k) =>
       k \notin m.index /\ (HasList => k \in m.retired)

\* What a life indexes is there unless its delete has begun, and the manifest
\* it would flush indexes what was flushed before.
IndexSound(w) ==
  phase[w] # "down" =>
    /\ \A k \in man[w].index : Null \in pending[k] \/ Live(k)
    /\ flushed \subseteq man[w].index
    /\ Leaves(man[w])

FlushedSound ==
  \A k \in flushed : Null \notin pending[k] /\ k \in StoredManifest.index /\ Live(k)

SoleInv ==
  /\ TypeOK /\ Numbered /\ StoredSound
  /\ Leaves(StoredManifest) /\ FlushedSound
  /\ \A w \in Writers : CallSound(w) /\ CreateSound(w) /\ FreshSound(w) /\ IndexSound(w)

\* What a store call may leave behind, as one process sees it: its own write,
\* or nothing new.
Goes(w) ==
  /\ \A k \in Ids \union Events :
       /\ store'[k].seq = 0 => store'[k].state = Null
       /\ HasDelete /\ store'[k].seq # 0 => store'[k].state # Null
       /\ k \notin abandoned => store'[k].state \in {accepted[k]} \union pending[k]
  /\ \A k \in Ids :
       /\ Null \notin pending[k] /\ Live(k) => store'[k].state # Null
       /\ pending[k] = {} \/ phase[w] = "boot" => store'[k].state = store[k].state
  /\ \/ store'[Agent] = store[Agent]
     \/ op[w].kind \in {"flush", "fresh"} /\ store'[Agent].state = man[w]

\* The parts of the invariant one process needs, and the types of its fields.
LEMMA SoleFacts ==
  ASSUME SoleInv, NEW w \in Writers
  PROVE  /\ TypeOK /\ Numbered /\ StoredSound /\ Leaves(StoredManifest) /\ FlushedSound
         /\ CallSound(w) /\ CreateSound(w) /\ FreshSound(w) /\ IndexSound(w)
         /\ op[w] \in Op /\ op[w].key \in Keys /\ op[w].seq \in Nat /\ CallKept(w)
         /\ man[w] \in Manifest /\ man[w].index \subseteq Ids
         /\ StoredManifest \in Manifest /\ StoredManifest.index \subseteq Ids
         /\ \A k \in Keys : store[k] \in Envelope /\ store[k].seq \in Nat
<1>1. /\ TypeOK /\ Numbered /\ StoredSound /\ Leaves(StoredManifest) /\ FlushedSound
      /\ CallSound(w) /\ CreateSound(w) /\ FreshSound(w) /\ IndexSound(w)
  BY DEF SoleInv
<1>2. op[w] \in Op /\ op[w].key \in Keys /\ op[w].seq \in Nat /\ CallKept(w)
  BY <1>1, OpType
<1>3. man[w] \in Manifest /\ StoredManifest \in Manifest
  BY <1>1, RestoreTypes DEF TypeOK
<1>4. man[w].index \subseteq Ids /\ StoredManifest.index \subseteq Ids
  BY <1>3 DEF Manifest
<1>5. \A k \in Keys : store[k] \in Envelope /\ store[k].seq \in Nat
  BY <1>1 DEF TypeOK, Envelope
<1> QED BY <1>1, <1>2, <1>3, <1>4, <1>5

\* Whatever the store call does, it goes so.
LEMMA StoreGoes ==
  ASSUME SoleInv, NEW w \in Writers,
         \/ store' = store
         \/ Writing(w) /\ ~op[w].reading /\ Admits(w) /\ Apply(w)
         \/ op[w].kind = "delete" /\ store' = [store EXCEPT ![op[w].key] = NoRecord]
  PROVE  Goes(w)
<1> USE SoleFacts, Constants
<1>1. CASE store' = store
  BY <1>1 DEF Goes, Numbered, StoredSound, Live
<1>2. CASE Writing(w) /\ Admits(w) /\ Apply(w)
  <2> DEFINE o == op[w]
  <2>1. /\ \A k \in Keys : k # o.key => store'[k] = store[k]
        /\ store'[o.key].seq = o.seq /\ store'[o.key].state = o.state
        /\ o.seq # 0
    BY <1>2 DEF Apply, Admits, TypeOK
  <2>2. CASE o.kind \in {"flush", "fresh"}
    <3>1. o.key = Agent /\ o.state = man[w] /\ Agent \notin Ids \union Events
      BY <2>2, DurableAssumption DEF CallKept, CallSound
    <3>2. \A k \in Ids \union Events : store'[k] = store[k]
      BY <2>1, <3>1
    <3> QED BY <2>1, <2>2, <3>1, <3>2 DEF Goes, Numbered, StoredSound, Live
  <2>3. CASE o.kind \in {"put", "create", "tombstone"}
    <3>1. /\ o.key \in Ids \union Events /\ o.key # Agent /\ phase[w] = "up"
          /\ o.state \in pending[o.key]
          /\ o.state = Null => ~HasDelete
          /\ Null \notin pending[o.key] => o.state # Null
      BY <2>3, DurableAssumption DEF CallKept, CallSound
    <3>2. store'[Agent] = store[Agent]
      BY <2>1, <3>1
    <3>3. ASSUME NEW k \in Ids \union Events, k # o.key
          PROVE  store'[k] = store[k]
      BY <2>1, <3>3
    <3>4. \A k \in Ids \union Events :
            /\ store'[k].seq = 0 => store'[k].state = Null
            /\ HasDelete /\ store'[k].seq # 0 => store'[k].state # Null
            /\ k \notin abandoned => store'[k].state \in {accepted[k]} \union pending[k]
      BY <2>1, <3>1, <3>3 DEF Numbered, StoredSound, Live
    <3>5. \A k \in Ids :
            /\ Null \notin pending[k] /\ Live(k) => store'[k].state # Null
            /\ pending[k] = {} \/ phase[w] = "boot" => store'[k].state = store[k].state
      BY <2>1, <3>1, <3>3 DEF Live
    <3> QED BY <3>2, <3>4, <3>5 DEF Goes
  <2> QED BY <1>2, <2>2, <2>3 DEF Writing
<1>3. CASE op[w].kind = "delete" /\ store' = [store EXCEPT ![op[w].key] = NoRecord]
  <2> DEFINE o == op[w]
  <2>1. /\ \A k \in Keys : k # o.key => store'[k] = store[k]
        /\ store'[o.key].seq = 0 /\ store'[o.key].state = Null
    BY <1>3 DEF TypeOK, NoRecord
  <2>2. /\ o.key \in Ids \union Events /\ o.key # Agent /\ phase[w] = "up"
        /\ Null \in pending[o.key]
    BY <1>3, DurableAssumption DEF CallKept, CallSound
  <2>3. ASSUME NEW k \in Ids \union Events, k # o.key
        PROVE  store'[k] = store[k]
    BY <2>1, <2>3
  <2>4. \A k \in Ids \union Events :
          /\ store'[k].seq = 0 => store'[k].state = Null
          /\ HasDelete /\ store'[k].seq # 0 => store'[k].state # Null
          /\ k \notin abandoned => store'[k].state \in {accepted[k]} \union pending[k]
    BY <2>1, <2>2, <2>3 DEF Numbered, StoredSound, Live
  <2>5. \A k \in Ids :
          /\ Null \notin pending[k] /\ Live(k) => store'[k].state # Null
          /\ pending[k] = {} \/ phase[w] = "boot" => store'[k].state = store[k].state
    BY <2>1, <2>2, <2>3 DEF Live
  <2> QED BY <2>1, <2>2, <2>4, <2>5 DEF Goes
<1> QED BY <1>1, <1>2, <1>3

\* The manifest a restore would start from.
LEMMA ManifestGoes ==
  ASSUME SoleInv, NEW w \in Writers, Goes(w)
  PROVE  /\ StoredManifest' = StoredManifest \/ StoredManifest' = man[w]
         /\ StoredManifest' = StoredManifest \/ op[w].kind \in {"flush", "fresh"}
<1>1. CASE store'[Agent] = store[Agent]
  BY <1>1 DEF StoredManifest, Live
<1>2. CASE op[w].kind \in {"flush", "fresh"} /\ store'[Agent].state = man[w]
  <2>1. man[w] # Null
    BY SoleFacts, NullAssumption
  <2> QED BY <1>2, <2>1 DEF StoredManifest, Live
<1> QED BY <1>1, <1>2 DEF Goes

\* The world as the process leaves it when it acknowledges nothing: the call
\* goes on, fails or dies with its process.
LEMMA WorldKept ==
  ASSUME SoleInv, NEW w \in Writers, Goes(w), UNCHANGED ghosts,
         phase'[w] = "down" \/ (phase[w] # "down" /\ man'[w] = man[w])
  PROVE  /\ Numbered' /\ StoredSound' /\ Leaves(StoredManifest)' /\ FlushedSound'
         /\ IndexSound(w)'
<1> USE SoleFacts
<1>1. accepted' = accepted /\ pending' = pending /\ flushed' = flushed /\ abandoned' = abandoned
  BY DEF ghosts
<1>2. Numbered' /\ StoredSound'
  BY <1>1 DEF Goes, Numbered, StoredSound, Live
<1>3. abandoned \subseteq Ids /\ flushed \subseteq Ids
  BY DEF TypeOK
<1>4. \A k \in Ids : pending[k] = {} => (Live(k)' <=> Live(k))
  BY DEF Goes, Live
<1>5. \A k \in Ids : Null \notin pending[k] /\ Live(k) => Live(k)'
  BY DEF Goes, Live
<1>6. ASSUME NEW m, Leaves(m)
      PROVE  /\ ~AllowFresh => m.retired = {}
             /\ \A k \in abandoned' : pending'[k] = {} /\ Live(k)' =>
                  k \notin m.index /\ (HasList => k \in m.retired)
  BY <1>1, <1>3, <1>4, <1>6 DEF Leaves
<1>7. Leaves(StoredManifest)' /\ FlushedSound'
  <2>1. CASE StoredManifest' = StoredManifest
    <3>1. FlushedSound'
      BY <1>1, <1>3, <1>5, <2>1 DEF FlushedSound
    <3>2. Leaves(StoredManifest)'
      BY <1>6, <2>1 DEF Leaves
    <3> QED BY <3>1, <3>2
  <2>2. CASE StoredManifest' = man[w] /\ op[w].kind \in {"flush", "fresh"}
    <3>1. phase[w] # "down"
      BY <2>2 DEF CallSound
    <3>2. flushed \subseteq man[w].index /\ Leaves(man[w])
      BY <3>1 DEF IndexSound
    <3>3. FlushedSound'
      BY <1>1, <1>3, <1>5, <2>2, <3>2 DEF FlushedSound
    <3>4. Leaves(StoredManifest)'
      BY <1>6, <2>2, <3>2 DEF Leaves
    <3> QED BY <3>3, <3>4
  <2> QED BY <2>1, <2>2, ManifestGoes
<1>8. IndexSound(w)'
  <2>1. CASE phase'[w] = "down"
    BY <2>1 DEF IndexSound
  <2>2. CASE phase[w] # "down" /\ man'[w] = man[w]
    <3>1. /\ \A k \in man[w].index : Null \in pending[k] \/ Live(k)
          /\ flushed \subseteq man[w].index /\ Leaves(man[w])
      BY <2>2 DEF IndexSound
    <3>2. Leaves(man[w])'
      BY <1>6, <2>2, <3>1 DEF Leaves
    <3>3. \A k \in man'[w].index : Null \in pending'[k] \/ Live(k)'
      BY <1>1, <1>5, <2>2, <3>1
    <3> QED BY <1>1, <2>2, <3>1, <3>2, <3>3 DEF IndexSound
  <2> QED BY <2>1, <2>2
<1> QED BY <1>2, <1>7, <1>8

\* With one process, its call is every call.
LEMMA SoleWriter ==
  ASSUME OneProcess, NEW w \in Writers, TypeOK', Numbered', StoredSound',
         Leaves(StoredManifest)', FlushedSound',
         CallSound(w)', CreateSound(w)', FreshSound(w)', IndexSound(w)'
  PROVE  SoleInv'
<1>1. \A v \in Writers : v = w
  BY DEF OneProcess
<1>2. \A v \in Writers :
        CallSound(v)' /\ CreateSound(v)' /\ FreshSound(v)' /\ IndexSound(v)'
  BY <1>1 DEF CallSound, CreateSound, FreshSound, IndexSound, Leaves, Live, Ours
<1> QED BY <1>2 DEF SoleInv

\* The call fails, or dies with its process.
LEMMA EndsSound ==
  ASSUME OneProcess, SoleInv, NEW w \in Writers, TypeOK', Goes(w), UNCHANGED ghosts,
         op'[w] = NoOp,
         \/ phase'[w] = "down"
         \/ phase[w] = "up" /\ phase'[w] = "up" /\ man'[w] = man[w]
  PROVE  SoleInv'
<1>1. /\ Numbered' /\ StoredSound' /\ Leaves(StoredManifest)' /\ FlushedSound'
      /\ IndexSound(w)'
  BY WorldKept
<1>2. op'[w].kind = "none"
  BY DEF NoOp
<1>3. CallSound(w)' /\ CreateSound(w)' /\ FreshSound(w)'
  BY <1>2 DEF CallSound, CreateSound, FreshSound
<1> QED BY <1>1, <1>3, SoleWriter

\* The call goes on and is the same call.
LEMMA GoesOnSound ==
  ASSUME OneProcess, SoleInv, NEW w \in Writers, TypeOK', Goes(w), UNCHANGED ghosts,
         copies' = copies, phase[w] # "down", phase'[w] = phase[w], man'[w] = man[w],
         op'[w].kind = op[w].kind, op'[w].key = op[w].key, op'[w].state = op[w].state,
         CreateSound(w)'
  PROVE  SoleInv'
<1> USE SoleFacts
<1>1. /\ Numbered' /\ StoredSound' /\ Leaves(StoredManifest)' /\ FlushedSound'
      /\ IndexSound(w)'
  BY WorldKept
<1>2. pending' = pending /\ flushed' = flushed
  BY DEF ghosts
<1>3. CallSound(w)'
  BY <1>2 DEF CallSound
<1>4. FreshSound(w)'
  <2> SUFFICES ASSUME op[w].kind \in {"fresh", "archive"} PROVE FreshSound(w)'
    BY DEF FreshSound
  <2>1. phase[w] = "boot" /\ \A k \in Ids : Live(k)' <=> Live(k)
    BY DEF FreshSound, Goes, Live
  <2>2. op[w].kind = "archive" => store'[Agent] = store[Agent]
    BY DEF Goes
  <2>3. op[w].kind = "fresh" => store'[Agent] = store[Agent] \/ store'[Agent].state = op[w].state
    BY DEF Goes, CallSound
  <2>4. op[w].kind = "archive" => Live(Agent)' /\ op'[w].state = store'[Agent].state
    BY <2>2 DEF FreshSound, Live
  <2>5. op[w].kind = "fresh" /\ Live(Agent)' =>
          store'[Agent].state \in copies' \union {op'[w].state}
    BY <2>3 DEF FreshSound, Live
  <2> QED BY <1>2, <2>1, <2>4, <2>5 DEF FreshSound
<1> QED BY <1>1, <1>3, <1>4, SoleWriter

\* A failed call, whatever it left in the store.
LEMMA FailSound ==
  ASSUME OneProcess, SoleInv, NEW w \in Writers, TypeOK', Goes(w), NEW ans, Fail(w, ans)
  PROVE  SoleInv'
<1> USE SoleFacts
<1>1. UNCHANGED ghosts /\ op'[w] = NoOp
  BY DEF Fail, Done, TypeOK
<1>2. CASE phase[w] = "boot"
  <2>1. phase'[w] = "down"
    BY <1>2 DEF Fail, TypeOK
  <2> QED BY <1>1, <2>1, EndsSound
<1>3. CASE phase[w] # "boot"
  <2>1. phase'[w] = phase[w] /\ man'[w] = man[w] /\ phase[w] \in {"down", "up"}
    BY <1>3 DEF Fail, mem, TypeOK
  <2> QED BY <1>1, <2>1, EndsSound
<1> QED BY <1>2, <1>3

\* Reads, manifest updates, retries and the steps of a create-only write.
LEMMA CallGoesOn ==
  ASSUME Sole, SoleInv, NEW w \in Writers, TypeOK',
         \/ ManifestUpdate(w) \/ \E k \in Ids \union Events : Get(w, k)
         \/ PutRetried(w) \/ PutAdopts(w) \/ CreateTaken(w) \/ CreatePastTombstone(w)
         \/ (DeleteFailed(w) /\ op[w].tries > 1)
  PROVE  SoleInv'
<1> USE SoleFacts
<1> DEFINE o == op[w]
<1>0. OneProcess
  BY DEF Sole
<1>1. CASE ManifestUpdate(w) \/ \E k \in Ids \union Events : Get(w, k)
  <2>1. /\ UNCHANGED <<store, copies, phase, op, man>> /\ UNCHANGED ghosts
        /\ phase[w] # "down"
    BY <1>1 DEF ManifestUpdate, Get, Idle
  <2>2. Goes(w)
    BY <2>1, StoreGoes
  <2>3. CreateSound(w)'
    BY <2>1 DEF CreateSound, Live, Ours
  <2> QED BY <1>0, <2>1, <2>2, <2>3, GoesOnSound
<1>2. CASE PutRetried(w)
  <2>1. /\ o.kind # "none" /\ ~o.reading /\ UNCHANGED <<copies, phase, man>> /\ UNCHANGED ghosts
        /\ op'[w] = [o EXCEPT !.tries = @ - 1]
        /\ \/ store' = store
           \/ Writing(w) /\ ~op[w].reading /\ Admits(w) /\ Apply(w)
    BY <1>2 DEF PutRetried, Writing, mem, TypeOK
  <2>2. Goes(w) /\ phase[w] # "down"
    BY <2>1, StoreGoes DEF CallSound
  <2>3. /\ op'[w].kind = o.kind /\ op'[w].key = o.key /\ op'[w].state = o.state
        /\ op'[w].seq = o.seq /\ op'[w].latest = o.latest
    BY <2>1 DEF Op
  <2>4. op'[w].past = o.past /\ op'[w].reading = o.reading
    BY <2>1 DEF Op
  <2>5. CreateSound(w)'
    <3>1. CASE store' = store
      BY <2>3, <2>4, <3>1 DEF CreateSound, Live, Ours
    <3>2. CASE Apply(w)
      <4>1. store'[o.key] = [seq |-> o.seq, state |-> o.state]
        BY <3>2 DEF Apply, TypeOK
      <4> QED BY <2>1, <2>3, <2>4, <4>1 DEF CreateSound, Ours
    <3> QED BY <2>1, <3>1, <3>2
  <2> QED BY <1>0, <2>1, <2>2, <2>3, <2>5, GoesOnSound
<1>3. CASE PutAdopts(w)
  <2>1. /\ o.kind \notin {"none", "create"} /\ UNCHANGED <<store, copies, phase, man>>
        /\ UNCHANGED ghosts
        /\ op'[w] = [o EXCEPT !.seq = store[o.key].seq + 1, !.adopted = TRUE,
                              !.warmed = TRUE, !.tries = Retries]
    BY <1>3 DEF PutAdopts, Writing, TypeOK
  <2>2. Goes(w) /\ phase[w] # "down"
    BY <2>1, StoreGoes DEF CallSound
  <2>3. op'[w].kind = o.kind /\ op'[w].key = o.key /\ op'[w].state = o.state
    BY <2>1 DEF Op
  <2>4. CreateSound(w)'
    BY <2>1, <2>3 DEF CreateSound
  <2> QED BY <1>0, <2>1, <2>2, <2>3, <2>4, GoesOnSound
<1>4. CASE CreateTaken(w)
  <2>1. /\ o.kind = "create" /\ ~o.reading /\ ~(o.seq > store[o.key].seq)
        /\ UNCHANGED <<store, copies, phase, man>> /\ UNCHANGED ghosts
        /\ op'[w] = [o EXCEPT !.reading = TRUE, !.latest = store[o.key].seq]
    BY <1>4 DEF CreateTaken, Admits, mem, TypeOK
  <2>2. Goes(w) /\ phase[w] # "down"
    BY <2>1, StoreGoes DEF CallSound
  <2>3. /\ op'[w].kind = o.kind /\ op'[w].key = o.key /\ op'[w].state = o.state
        /\ op'[w].seq = o.seq /\ op'[w].latest = store[o.key].seq
    BY <2>1 DEF Op
  <2>4. op'[w].past = o.past
    BY <2>1 DEF Op
  <2>5. CreateSound(w)'
    BY <2>1, <2>3, <2>4 DEF CreateSound, Live, Ours
  <2> QED BY <1>0, <2>1, <2>2, <2>3, <2>5, GoesOnSound
<1>5. CASE CreatePastTombstone(w)
  <2>1. /\ o.reading /\ ~Visible(o.key) /\ ~o.past
        /\ UNCHANGED <<store, copies, phase, man>> /\ UNCHANGED ghosts
        /\ op'[w] = [o EXCEPT !.reading = FALSE, !.past = TRUE,
                              !.seq = o.latest + 1, !.tries = Retries]
    BY <1>5 DEF CreatePastTombstone, mem, TypeOK
  <2>2. o.kind = "create" /\ o.latest = store[o.key].seq /\ o.state # Null /\ o.key \in Events
    BY <2>1 DEF CallKept, CreateSound, CallSound
  <2>3. Goes(w) /\ phase[w] # "down"
    BY <2>1, <2>2, StoreGoes DEF CallSound
  <2>4. ~Live(o.key)
    BY <2>1, <2>2 DEF Visible, Numbered
  <2>5. /\ op'[w].kind = o.kind /\ op'[w].key = o.key /\ op'[w].state = o.state
        /\ op'[w].seq = store[o.key].seq + 1
    BY <2>1, <2>2 DEF Op
  <2>6. op'[w].past /\ ~op'[w].reading
    BY <2>1 DEF Op
  <2>7. CreateSound(w)'
    BY <2>1, <2>2, <2>4, <2>5, <2>6 DEF CreateSound, Live
  <2> QED BY <1>0, <2>1, <2>3, <2>5, <2>7, GoesOnSound
<1>6. CASE DeleteFailed(w) /\ o.tries > 1
  <2>1. /\ o.kind = "delete" /\ UNCHANGED <<copies, phase, man>> /\ UNCHANGED ghosts
        /\ op'[w] = [o EXCEPT !.tries = @ - 1]
        /\ store' = store \/ store' = [store EXCEPT ![o.key] = NoRecord]
    BY <1>6 DEF DeleteFailed, mem, TypeOK
  <2>2. Goes(w) /\ phase[w] # "down"
    BY <2>1, StoreGoes DEF CallSound
  <2>3. op'[w].kind = o.kind /\ op'[w].key = o.key /\ op'[w].state = o.state
    BY <2>1 DEF Op
  <2>4. CreateSound(w)'
    BY <2>1, <2>3 DEF CreateSound
  <2> QED BY <1>0, <2>1, <2>2, <2>3, <2>4, GoesOnSound
<1> QED BY <1>1, <1>2, <1>3, <1>4, <1>5, <1>6

\* Failures, fatal conflicts and the death of the process.
LEMMA CallEnds ==
  ASSUME Sole, SoleInv, NEW w \in Writers, TypeOK',
         \/ PutFailed(w) \/ PutConflict(w) \/ CreateReadFailed(w) \/ ArchiveFailed(w)
         \/ (DeleteFailed(w) /\ ~(op[w].tries > 1)) \/ Crash(w)
  PROVE  SoleInv'
<1> USE SoleFacts DEF Sole
<1>1. CASE PutFailed(w) \/ PutConflict(w) \/ CreateReadFailed(w) \/ ArchiveFailed(w)
           \/ (DeleteFailed(w) /\ ~(op[w].tries > 1))
  <2>1. \E ans \in Answers : Fail(w, ans)
    BY <1>1 DEF PutFailed, PutConflict, CreateReadFailed, ArchiveFailed, DeleteFailed, Answers
  <2>2. \/ store' = store
        \/ Writing(w) /\ ~op[w].reading /\ Admits(w) /\ Apply(w)
        \/ op[w].kind = "delete" /\ store' = [store EXCEPT ![op[w].key] = NoRecord]
    BY <1>1 DEF PutFailed, PutConflict, CreateReadFailed, ArchiveFailed, DeleteFailed
  <2>3. Goes(w)
    BY <2>2, StoreGoes
  <2> QED BY <2>1, <2>3, FailSound
<1>2. CASE Crash(w)
  <2>1. phase'[w] = "down" /\ op'[w] = NoOp /\ store' = store /\ UNCHANGED ghosts
    BY <1>2 DEF Crash, TypeOK
  <2>2. Goes(w)
    BY <2>1, StoreGoes
  <2> QED BY <2>1, <2>2, EndsSound
<1> QED BY <1>1, <1>2

\* The world while a call begins: more may be stored, and what may go is no
\* longer counted as flushed.
LEMMA WorldGrows ==
  ASSUME SoleInv, NEW w \in Writers, TypeOK', store' = store,
         accepted' = accepted, abandoned' = abandoned,
         \A j \in Ids \union Events : pending[j] \subseteq pending'[j],
         flushed' \subseteq flushed, \A j \in flushed' : Null \notin pending'[j]
  PROVE  /\ Numbered' /\ StoredSound' /\ Leaves(StoredManifest)' /\ FlushedSound'
         /\ phase'[w] = phase[w] /\ man'[w] = man[w] => IndexSound(w)'
<1> USE SoleFacts
<1>1. StoredManifest' = StoredManifest /\ \A k \in Keys : Live(k)' <=> Live(k)
  BY DEF StoredManifest, Live
<1>2. abandoned \subseteq Ids /\ flushed \subseteq Ids
  BY DEF TypeOK
<1>3. Numbered'
  BY DEF Numbered, Live
<1>4. StoredSound'
  BY DEF StoredSound
<1>5. FlushedSound'
  BY <1>1, <1>2, Constants DEF FlushedSound
<1>6. ASSUME NEW m, Leaves(m)
      PROVE  /\ ~AllowFresh => m.retired = {}
             /\ \A k \in abandoned' : pending'[k] = {} /\ Live(k)' =>
                  k \notin m.index /\ (HasList => k \in m.retired)
  <2>1. ASSUME NEW k \in abandoned', pending'[k] = {}, Live(k)'
        PROVE  pending[k] = {} /\ Live(k) /\ k \in abandoned
    BY <1>1, <1>2, <2>1, Constants
  <2> QED BY <1>6, <2>1 DEF Leaves
<1>7. Leaves(StoredManifest)'
  BY <1>1, <1>6 DEF Leaves
<1>8. ASSUME phase'[w] = phase[w], man'[w] = man[w]
      PROVE  IndexSound(w)'
  <2> SUFFICES ASSUME phase[w] # "down" PROVE IndexSound(w)'
    BY <1>8 DEF IndexSound
  <2>1. /\ \A k \in man[w].index : Null \in pending[k] \/ Live(k)
        /\ flushed \subseteq man[w].index /\ Leaves(man[w])
    BY DEF IndexSound
  <2>2. Leaves(man[w])'
    BY <1>6, <1>8, <2>1 DEF Leaves
  <2>3. \A k \in man'[w].index : Null \in pending'[k] \/ Live(k)'
    BY <1>1, <1>8, <2>1, Constants
  <2> QED BY <1>8, <2>1, <2>2, <2>3 DEF IndexSound
<1> QED BY <1>3, <1>4, <1>5, <1>7, <1>8

\* A write or a delete of an entity or an event begins.
LEMMA EntityBegins ==
  ASSUME OneProcess, SoleInv, NEW w \in Writers, TypeOK',
         NEW kind \in {"put", "create", "tombstone", "delete"},
         NEW k \in Ids \union Events, NEW s \in States \union {Null},
         BeginEntity(w, kind, k, s),
         kind \in {"put", "create"} => s # Null,
         kind \in {"tombstone", "delete"} => s = Null,
         kind = "tombstone" => ~HasDelete,
         kind = "create" => store[k].state # s
  PROVE  SoleInv'
<1> USE SoleFacts
<1> DEFINE o == NewOp(kind, k, s, seqs[w][k])
<1>1. /\ phase[w] = "up" /\ op'[w] = o
      /\ UNCHANGED <<store, phase, man, accepted, abandoned>>
      /\ flushed' = IF s = Null THEN flushed \ {k} ELSE flushed
      /\ pending' = [pending EXCEPT ![k] = @ \union {s}]
  BY DEF BeginEntity, Begin, Idle, mem, TypeOK
<1>2. /\ o.kind = kind /\ o.key = k /\ o.state = s /\ (kind = "create" => o.seq = 1)
      /\ ~o.past /\ ~o.reading
  <2>1. kind \in Kinds /\ k \in Keys /\ s \in Contents /\ seqs[w][k] \in Nat
    BY Constants DEF TypeOK, Kinds, Contents
  <2> QED BY <2>1, NewOpType
<1>3. /\ s \in pending'[k] /\ pending[k] \subseteq pending'[k]
      /\ \A j \in (Ids \union Events) \ {k} : pending'[j] = pending[j]
      /\ pending'[k] = pending[k] \union {s}
  BY <1>1 DEF TypeOK
<1>4. flushed' \subseteq flushed /\ \A j \in flushed' : Null \notin pending'[j]
  <2>1. \A j \in flushed : Null \notin pending[j] /\ j \in Ids
    BY DEF FlushedSound, TypeOK
  <2>2. flushed' \subseteq flushed /\ (s = Null => k \notin flushed')
    BY <1>1
  <2>3. ASSUME NEW j \in flushed' PROVE Null \notin pending'[j]
    <3>1. j \in Ids /\ Null \notin pending[j]
      BY <2>1, <2>2
    <3>2. CASE j = k
      BY <1>3, <2>2, <3>1, <3>2
    <3>3. CASE j # k
      BY <1>3, <3>1, <3>3
    <3> QED BY <3>2, <3>3
  <2> QED BY <2>2, <2>3
<1>5. \A j \in Ids \union Events : pending[j] \subseteq pending'[j]
  BY <1>3
<1>6. /\ Numbered' /\ StoredSound' /\ Leaves(StoredManifest)' /\ FlushedSound'
      /\ IndexSound(w)'
  BY <1>1, <1>4, <1>5, WorldGrows
<1>7. CallSound(w)'
  BY <1>1, <1>2, <1>3 DEF CallSound
<1>8. CreateSound(w)' /\ FreshSound(w)'
  BY <1>1, <1>2 DEF CreateSound, FreshSound
<1> QED BY <1>6, <1>7, <1>8, SoleWriter

\* Any call of the facade begins.
LEMMA CallBegins ==
  ASSUME Sole, SoleInv, NEW w \in Writers, TypeOK',
         \/ \E k \in Ids, s \in States : Put(w, k, s)
         \/ \E k \in Events, s \in States : Create(w, k, s)
         \/ \E k \in Ids \union Events : Delete(w, k)
         \/ Flush(w)
  PROVE  SoleInv'
<1> USE SoleFacts, DurableAssumption DEF Sole
<1>1. ASSUME NEW k \in Ids, NEW s \in States, Put(w, k, s)
      PROVE  SoleInv'
  BY <1>1, EntityBegins DEF Put
<1>2. ASSUME NEW k \in Events, NEW s \in States, Create(w, k, s)
      PROVE  SoleInv'
  <2>1. s # store[k].state /\ s # Null /\ BeginEntity(w, "create", k, s)
    BY <1>2 DEF Create
  <2> QED BY <2>1, EntityBegins
<1>3. ASSUME NEW k \in Ids \union Events, Delete(w, k)
      PROVE  SoleInv'
  <2>1. CASE HasDelete
    <3>1. BeginEntity(w, "delete", k, Null)
      BY <1>3, <2>1 DEF Delete
    <3> QED BY <3>1, EntityBegins
  <2>2. CASE ~HasDelete
    <3>1. BeginEntity(w, "tombstone", k, Null)
      BY <1>3, <2>2 DEF Delete
    <3> QED BY <2>2, <3>1, EntityBegins
  <2> QED BY <2>1, <2>2
<1>4. CASE Flush(w)
  <2> DEFINE o == NewOp("flush", Agent, man[w], seqs[w][Agent])
  <2>1. /\ phase[w] = "up" /\ op'[w] = o
        /\ UNCHANGED <<store, phase, man, accepted, abandoned, pending, flushed>>
    BY <1>4 DEF Flush, Begin, Idle, mem, TypeOK
  <2>2. o.kind = "flush" /\ o.state = man[w]
    BY DEF NewOp
  <2>3. \A j \in flushed : Null \notin pending[j]
    BY DEF FlushedSound
  <2>4. /\ Numbered' /\ StoredSound' /\ Leaves(StoredManifest)' /\ FlushedSound'
        /\ IndexSound(w)'
    BY <2>1, <2>3, WorldGrows
  <2>5. CallSound(w)' /\ CreateSound(w)' /\ FreshSound(w)'
    BY <2>1, <2>2 DEF CallSound, CreateSound, FreshSound
  <2> QED BY <2>4, <2>5, SoleWriter
<1> QED BY <1>1, <1>2, <1>3, <1>4

\* A create-only write learns that its key is taken: what holds it is not
\* this write, so nothing is lost sight of.
LEMMA OccupiedSound ==
  ASSUME Sole, SoleInv, NEW w \in Writers, TypeOK', CreateOccupied(w)
  PROVE  SoleInv' /\ store[op[w].key].state # op[w].state
<1> USE SoleFacts, DurableAssumption
<1> DEFINE o == op[w]
           k == op[w].key
<1>1. /\ o.reading /\ op'[w] = NoOp /\ UNCHANGED <<store, phase, man>>
      /\ UNCHANGED <<accepted, flushed, abandoned>>
      /\ pending' = [pending EXCEPT ![k] = @ \ {o.state}]
      /\ IF Visible(k) THEN ~Ours(w) ELSE TRUE
  BY DEF CreateOccupied, Done, TypeOK
<1>2. /\ o.kind = "create" /\ k \in Events /\ k \notin Ids /\ o.state # Null
      /\ phase[w] = "up"
  BY <1>1 DEF CallKept, CallSound
<1>3. store[k].state # o.state
  <2>1. CASE ~Visible(k)
    BY <1>2, <2>1 DEF Visible, Numbered, Live
  <2>2. CASE Visible(k)
    <3>1. store[k] = [seq |-> store[k].seq, state |-> store[k].state]
      BY <1>2, Constants DEF Envelope
    <3>2. store[k].state = o.state => store[k].seq = o.seq
      BY <1>2 DEF CreateSound
    <3> QED BY <1>1, <2>2, <3>1, <3>2 DEF Ours
  <2> QED BY <2>1, <2>2
<1>4. /\ pending'[k] = pending[k] \ {o.state}
      /\ \A j \in (Ids \union Events) \ {k} : pending'[j] = pending[j]
      /\ \A j \in Ids : pending'[j] = pending[j]
  BY <1>1, <1>2 DEF TypeOK
<1>5. abandoned \subseteq Ids /\ flushed \subseteq Ids
  BY DEF TypeOK
<1>6. StoredManifest' = StoredManifest /\ \A j : Live(j)' <=> Live(j)
  BY <1>1 DEF StoredManifest, Live
<1>7. Numbered'
  BY <1>1 DEF Numbered, Live
<1>8. StoredSound'
  BY <1>1, <1>2, <1>3, <1>4, <1>5 DEF StoredSound
<1>9. Leaves(StoredManifest)' /\ FlushedSound'
  BY <1>1, <1>4, <1>5, <1>6 DEF Leaves, FlushedSound
<1>10. IndexSound(w)'
  BY <1>1, <1>2, <1>4, <1>5, <1>6 DEF IndexSound, Leaves
<1>11. op'[w].kind = "none" /\ phase'[w] = "up"
  BY <1>1, <1>2 DEF NoOp
<1>12. CallSound(w)' /\ CreateSound(w)' /\ FreshSound(w)'
  BY <1>11 DEF CallSound, CreateSound, FreshSound
<1> QED BY <1>3, <1>7, <1>8, <1>9, <1>10, <1>12, SoleWriter DEF Sole

\* An entity's write or delete is acknowledged: the store holds what it
\* carried, nothing of the key is in doubt any more, and the index follows.
LEMMA EntityAcknowledged ==
  ASSUME OneProcess, SoleInv, NEW w \in Writers, TypeOK', Goes(w),
         op[w].kind \in {"put", "create", "tombstone", "delete"},
         op'[w] = NoOp, phase'[w] = phase[w],
         store'[op[w].key].state = op[w].state,
         \A j \in Keys : j # op[w].key => store'[j] = store[j],
         accepted' = [accepted EXCEPT ![op[w].key] = op[w].state],
         pending' = [pending EXCEPT ![op[w].key] = {}],
         abandoned' = abandoned \ {op[w].key}, flushed' = flushed,
         man'[w].retired = man[w].retired,
         man'[w].index = CASE op[w].kind = "put" -> man[w].index \union {op[w].key}
                           [] op[w].kind = "create" -> man[w].index
                           [] OTHER -> man[w].index \ {op[w].key}
  PROVE  SoleInv'
<1> USE SoleFacts, DurableAssumption
<1> DEFINE o == op[w]
           k == op[w].key
<1>1. /\ k \in Ids \union Events /\ k # Agent /\ phase[w] = "up"
      /\ o.state \in pending[k]
  BY DEF CallKept, CallSound
<1>2. /\ accepted'[k] = o.state /\ pending'[k] = {}
      /\ \A j \in (Ids \union Events) \ {k} :
           accepted'[j] = accepted[j] /\ pending'[j] = pending[j]
  BY <1>1 DEF TypeOK
<1>3. abandoned \subseteq Ids /\ flushed \subseteq Ids
  BY DEF TypeOK
<1>4. /\ StoredManifest' = StoredManifest
      /\ \A j \in (Ids \union Events) \ {k} : Live(j)' <=> Live(j)
  <2>1. store'[Agent] = store[Agent]
    BY <1>1, Constants
  <2>2. \A j \in (Ids \union Events) \ {k} : store'[j] = store[j]
    BY Constants
  <2> QED BY <2>1, <2>2 DEF StoredManifest, Live
<1>5. Numbered'
  BY DEF Goes, Numbered, Live
<1>6. StoredSound'
  <2>1. ASSUME NEW j \in (Ids \union Events) \ abandoned'
        PROVE  store'[j].state \in {accepted'[j]} \union pending'[j]
    <3>1. CASE j = k
      BY <1>2, <3>1
    <3>2. CASE j # k
      <4>1. store'[j] = store[j] /\ j \notin abandoned
        BY <3>2, Constants
      <4> QED BY <1>2, <3>2, <4>1 DEF StoredSound
    <3> QED BY <3>1, <3>2
  <2>2. ~AllowFresh => abandoned' = {}
    BY DEF StoredSound
  <2> QED BY <2>1, <2>2 DEF StoredSound
<1>7. ASSUME NEW m, NEW n, Leaves(m), n.retired = m.retired, n.index \subseteq m.index \union {k}
      PROVE  /\ ~AllowFresh => n.retired = {}
             /\ \A j \in abandoned' : pending'[j] = {} /\ Live(j)' =>
                  j \notin n.index /\ (HasList => j \in n.retired)
  <2>1. \A j \in abandoned' : j \in abandoned /\ j # k /\ j \in (Ids \union Events) \ {k}
    BY <1>3
  <2> QED BY <1>2, <1>4, <1>7, <2>1 DEF Leaves
<1>8. Leaves(StoredManifest)'
  BY <1>4, <1>7 DEF Leaves
<1>9. FlushedSound'
  <2>1. ASSUME NEW j \in flushed
        PROVE  Null \notin pending'[j] /\ j \in StoredManifest'.index /\ Live(j)'
    <3>1. Null \notin pending[j] /\ j \in StoredManifest.index /\ Live(j) /\ j \in Ids
      BY <1>3 DEF FlushedSound
    <3>2. CASE j = k
      BY <1>1, <1>2, <1>4, <3>1, <3>2 DEF Live
    <3>3. CASE j # k
      BY <1>2, <1>4, <3>1, <3>3
    <3> QED BY <3>2, <3>3
  <2> QED BY <2>1 DEF FlushedSound
<1>10. IndexSound(w)'
  <2>1. /\ \A j \in man[w].index : Null \in pending[j] \/ Live(j)
        /\ flushed \subseteq man[w].index /\ Leaves(man[w])
    BY <1>1 DEF IndexSound
  <2>2. /\ man'[w].index \subseteq man[w].index \union {k}
        /\ k \in man'[w].index => o.kind = "put"
        /\ man[w].index \ {k} \subseteq man'[w].index
        /\ o.kind = "put" \/ o.kind = "create" => man[w].index \subseteq man'[w].index
    <3>1. o.kind = "create" => k \notin man[w].index
      BY DEF CallKept
    <3> QED BY <3>1
  <2>3. \A j \in man'[w].index : Null \in pending'[j] \/ Live(j)'
    <3>1. o.kind = "put" => store'[k].state # Null
      BY DEF CallSound
    <3>2. ASSUME NEW j \in man'[w].index
          PROVE  Null \in pending'[j] \/ Live(j)'
      <4>1. CASE j = k
        BY <2>2, <3>1, <4>1 DEF Live
      <4>2. CASE j # k
        <5>1. j \in man[w].index /\ j \in (Ids \union Events) \ {k}
          BY <2>2, <4>2
        <5> QED BY <1>2, <1>4, <2>1, <5>1
      <4> QED BY <4>1, <4>2
    <3> QED BY <3>2
  <2>4. flushed \subseteq man'[w].index
    <3>1. o.kind \in {"tombstone", "delete"} => k \notin flushed
      BY <1>1 DEF CallSound, FlushedSound
    <3> QED BY <2>1, <2>2, <3>1
  <2>5. Leaves(man[w])'
    BY <1>7, <2>1, <2>2 DEF Leaves
  <2> QED BY <2>3, <2>4, <2>5 DEF IndexSound
<1>11. op'[w].kind = "none" /\ phase'[w] = "up"
  BY <1>1 DEF NoOp
<1>12. CallSound(w)' /\ CreateSound(w)' /\ FreshSound(w)'
  BY <1>11 DEF CallSound, CreateSound, FreshSound
<1> QED BY <1>5, <1>6, <1>8, <1>9, <1>10, <1>12, SoleWriter

\* A manifest is acknowledged: a flush, or the end of a restore or a --fresh.
LEMMA ManifestAcknowledged ==
  ASSUME OneProcess, SoleInv, NEW w \in Writers, TypeOK', Made(w, TRUE),
         op[w].kind \in {"flush", "fresh"},
         store'[Agent].state = op[w].state,
         \A j \in Ids \union Events : store'[j] = store[j]
  PROVE  SoleInv'
<1> USE SoleFacts, DurableAssumption
<1> DEFINE o == op[w]
<1>1. o.key = Agent /\ o.state = man[w] /\ phase[w] # "down" /\ man[w] # Null
  BY NullAssumption DEF CallKept, CallSound
<1>2. /\ op'[w] = NoOp /\ phase'[w] = "up" /\ accepted' = accepted
      /\ abandoned' = IF o.kind = "fresh" THEN Ids ELSE abandoned \ {o.key}
      /\ flushed' = IF o.kind = "flush" /\ phase[w] = "up"
                    THEN {k \in man[w].index : Null \notin pending[k]}
                    ELSE flushed
      /\ pending' = CASE o.kind = "fresh" ->
                           [k \in Ids \union Events |->
                              IF k \in Ids THEN {} ELSE pending[k]]
                      [] o.key # Agent -> [pending EXCEPT ![o.key] = {}]
                      [] OTHER -> pending
  BY <1>1 DEF Made, Done, TypeOK
<1>3. man'[w].index = man[w].index /\ man'[w].retired = man[w].retired
  BY DEF Made, TypeOK, Manifest
<1>4. StoredManifest' = man[w] /\ \A j \in Ids \union Events : Live(j)' <=> Live(j)
  BY <1>1 DEF StoredManifest, Live
<1>5. /\ \A j \in man[w].index : Null \in pending[j] \/ Live(j)
      /\ flushed \subseteq man[w].index /\ Leaves(man[w])
  BY <1>1 DEF IndexSound
<1>6. abandoned \subseteq Ids /\ flushed \subseteq Ids
  BY DEF TypeOK
<1>7. op'[w].kind = "none"
  BY <1>2 DEF NoOp
<1>8. CallSound(w)' /\ CreateSound(w)' /\ FreshSound(w)'
  BY <1>2, <1>7 DEF CallSound, CreateSound, FreshSound
<1>9. Numbered'
  BY <1>4 DEF Numbered
<1>10. CASE o.kind = "flush"
  <2>1. pending' = pending
    BY <1>1, <1>2, <1>10
  <2>2. abandoned' = abandoned
    BY <1>1, <1>2, <1>6, <1>10
  <2>3. flushed' \subseteq man[w].index
    BY <1>2, <1>5
  <2>4. \A j \in flushed' : Null \notin pending[j] /\ Live(j)
    BY <1>2, <1>5 DEF FlushedSound
  <2>5. StoredSound'
    BY <1>2, <2>1, <2>2 DEF StoredSound
  <2>6. Leaves(StoredManifest)'
    BY <1>4, <1>5, <1>6, <2>1, <2>2 DEF Leaves
  <2>7. FlushedSound'
    BY <1>4, <2>1, <2>3, <2>4 DEF FlushedSound
  <2>8. Leaves(man[w])'
    BY <1>3, <1>4, <1>5, <1>6, <2>1, <2>2 DEF Leaves
  <2>9. IndexSound(w)'
    BY <1>3, <1>4, <1>5, <2>1, <2>3, <2>8 DEF IndexSound
  <2> QED BY <1>8, <1>9, <2>5, <2>6, <2>7, <2>9, SoleWriter
<1>11. CASE o.kind = "fresh"
  <2>1. /\ AllowFresh /\ flushed = {} /\ man[w].index = {}
        /\ HasList => \A k \in Ids : Live(k) => k \in man[w].retired
    BY <1>11 DEF FreshSound
  <2>2. abandoned' = Ids /\ flushed' = {}
    BY <1>2, <1>11, <2>1
  <2>3. \A k \in Events : pending'[k] = pending[k]
    <3>1. pending' = [k \in Ids \union Events |-> IF k \in Ids THEN {} ELSE pending[k]]
      BY <1>1, <1>2, <1>11
    <3>2. \A k \in Events : k \notin Ids
      OBVIOUS
    <3> QED BY <3>1, <3>2
  <2>4. StoredSound'
    <3>1. \A k \in Events : k \notin abandoned
      BY <1>6
    <3> QED BY <1>2, <2>1, <2>2, <2>3, <3>1 DEF StoredSound
  <2>5. /\ \A k \in abandoned' : pending'[k] = {} /\ Live(k)' =>
             k \notin man[w].index /\ (HasList => k \in man[w].retired)
    BY <1>4, <2>1, <2>2
  <2>6. Leaves(StoredManifest)' /\ Leaves(man[w])'
    BY <1>3, <1>4, <2>1, <2>5 DEF Leaves
  <2>7. FlushedSound' /\ IndexSound(w)'
    BY <1>3, <2>1, <2>2, <2>6 DEF FlushedSound, IndexSound
  <2> QED BY <1>8, <1>9, <2>4, <2>6, <2>7, SoleWriter
<1> QED BY <1>10, <1>11

\* A write or a delete is acknowledged.
LEMMA CallAcknowledged ==
  ASSUME Sole, SoleInv, NEW w \in Writers, TypeOK',
         PutOk(w) \/ CreateOurs(w) \/ DeleteOk(w)
  PROVE  SoleInv'
<1> USE SoleFacts DEF Sole
<1> DEFINE o == op[w]
<1>1. CASE PutOk(w) \/ CreateOurs(w)
  <2>1. Writing(w) /\ Made(w, TRUE)
    BY <1>1 DEF PutOk, CreateOurs, CallKept, Writing
  <2>2. /\ store'[o.key].state = o.state
        /\ \A j \in Keys : j # o.key => store'[j] = store[j]
    <3>1. CASE PutOk(w)
      BY <3>1 DEF PutOk, Apply, TypeOK
    <3>2. CASE CreateOurs(w)
      BY <3>2 DEF CreateOurs, Ours
    <3> QED BY <1>1, <3>1, <3>2
  <2>3. Goes(w)
    BY <1>1, StoreGoes DEF PutOk, CreateOurs
  <2>4. CASE o.kind \in {"flush", "fresh"}
    <3>1. o.key = Agent /\ Agent \notin Ids \union Events
      BY <2>4, DurableAssumption DEF CallKept
    <3>2. \A j \in Ids \union Events : store'[j] = store[j]
      BY <2>2, <3>1, Constants
    <3> QED BY <2>1, <2>2, <2>4, <3>1, <3>2, ManifestAcknowledged
  <2>5. CASE o.kind \in {"put", "create", "tombstone"}
    <3>1. o.key \in Ids \union Events /\ o.key # Agent /\ phase[w] = "up"
      BY <2>5, DurableAssumption DEF CallKept, CallSound
    <3>2. /\ op'[w] = NoOp /\ phase'[w] = phase[w]
          /\ accepted' = [accepted EXCEPT ![o.key] = o.state]
          /\ abandoned' = abandoned \ {o.key} /\ flushed' = flushed
      BY <2>1, <2>5, <3>1 DEF Made, Done, TypeOK
    <3>3. pending' = [pending EXCEPT ![o.key] = {}]
      BY <2>1, <2>5, <3>1 DEF Made
    <3>4. man'[w] = [man[w] EXCEPT !.index =
             CASE o.kind = "tombstone" -> @ \ {o.key}
               [] o.kind = "put" -> @ \union {o.key}
               [] OTHER -> @]
      BY <2>1 DEF Made, TypeOK
    <3>5. man'[w].retired = man[w].retired
      BY <3>4 DEF Manifest
    <3>6. man'[w].index = CASE o.kind = "put" -> man[w].index \union {o.key}
                            [] o.kind = "create" -> man[w].index
                            [] OTHER -> man[w].index \ {o.key}
      BY <2>5, <3>4 DEF Manifest
    <3> QED BY <2>2, <2>3, <2>5, <3>2, <3>3, <3>5, <3>6, EntityAcknowledged
  <2> QED BY <2>1, <2>4, <2>5 DEF Writing
<1>2. CASE DeleteOk(w)
  <2>1. /\ o.kind = "delete" /\ store' = [store EXCEPT ![o.key] = NoRecord]
        /\ man' = [man EXCEPT ![w].index = @ \ {o.key}]
        /\ op'[w] = NoOp /\ accepted' = [accepted EXCEPT ![o.key] = Null]
        /\ pending' = [pending EXCEPT ![o.key] = {}]
        /\ abandoned' = abandoned \ {o.key} /\ phase' = phase /\ flushed' = flushed
    BY <1>2 DEF DeleteOk, Done, TypeOK
  <2>2. o.state = Null /\ store'[o.key].state = o.state
    BY <2>1 DEF CallSound, NoRecord, TypeOK
  <2>3. \A j \in Keys : j # o.key => store'[j] = store[j]
    BY <2>1 DEF TypeOK
  <2>4. Goes(w)
    BY <2>1, StoreGoes
  <2>5. man'[w].retired = man[w].retired /\ man'[w].index = man[w].index \ {o.key}
    BY <2>1 DEF Manifest, TypeOK
  <2> QED BY <2>1, <2>2, <2>3, <2>4, <2>5, EntityAcknowledged
<1> QED BY <1>1, <1>2

\* A process starts, or a --fresh has made its copy.
LEMMA LifeBegins ==
  ASSUME Sole, SoleInv, NEW w \in Writers, TypeOK',
         Restore(w) \/ RestoreFresh(w) \/ ArchiveOk(w)
  PROVE  SoleInv'
<1> USE SoleFacts DEF Sole
<1> DEFINE sm == StoredManifest
<1>1. CASE Restore(w)
  <2> DEFINE n == NewOp("flush", Agent, Resumed(sm), Warm(sm.index \union Adopts)[Agent])
  <2>1. /\ phase'[w] = "boot" /\ man'[w] = Resumed(sm) /\ op'[w] = n
        /\ UNCHANGED <<store, accepted, abandoned, pending, flushed>>
    BY <1>1 DEF Restore, Boot, TypeOK
  <2>2. /\ Numbered' /\ StoredSound' /\ Leaves(StoredManifest)' /\ FlushedSound'
    <3>1. \A j \in flushed : Null \notin pending[j]
      BY DEF FlushedSound
    <3> QED BY <2>1, <3>1, WorldGrows
  <2>3. /\ Resumed(sm).index = Found
        /\ Resumed(sm).retired = IF HasList THEN sm.retired \intersect Listed ELSE sm.retired
    BY DEF Resumed
  <2>4. \A k : Live(k)' <=> Live(k)
    BY <2>1 DEF Live
  <2>5. flushed \subseteq Found /\ \A k \in Found : Live(k)
    BY DEF FlushedSound, Found
  <2>6. ASSUME NEW k \in abandoned, pending[k] = {}, Live(k)
        PROVE  k \notin Found /\ (HasList => k \in sm.retired \intersect Listed)
    <3>1. k \in Ids /\ k \notin sm.index /\ (HasList => k \in sm.retired)
      BY <2>6 DEF Leaves, TypeOK
    <3>2. k \notin Adopts
      BY <3>1 DEF Adopts
    <3>3. k \in Listed
      BY <2>6, <3>1 DEF Listed, Visible, Numbered
    <3> QED BY <3>1, <3>2, <3>3 DEF Found
  <2>7. ~AllowFresh => Resumed(sm).retired = {}
    BY <2>3 DEF Leaves
  <2>8. Leaves(man[w])'
    BY <2>1, <2>3, <2>4, <2>6, <2>7 DEF Leaves
  <2>9. IndexSound(w)'
    BY <2>1, <2>3, <2>4, <2>5, <2>8 DEF IndexSound
  <2>10. n.kind = "flush" /\ n.state = Resumed(sm)
    BY DEF NewOp
  <2>11. CallSound(w)' /\ CreateSound(w)' /\ FreshSound(w)'
    BY <2>1, <2>10 DEF CallSound, CreateSound, FreshSound
  <2> QED BY <2>2, <2>9, <2>11, SoleWriter
<1>2. CASE RestoreFresh(w)
  <2> DEFINE n == op'[w]
  <2>1. /\ AllowFresh /\ phase'[w] = "boot" /\ man'[w] = Opened(sm)
        /\ op'[w] = IF Live(Agent) THEN NewOp("archive", Agent, sm, 0)
                    ELSE NewOp("fresh", Agent, Opened(sm), Warm({})[Agent])
        /\ UNCHANGED <<store, copies, accepted, abandoned>> /\ flushed' = {}
        /\ pending' = [k \in Ids \union Events |->
                         IF k \in Ids THEN pending[k] \union {Null} ELSE pending[k]]
    BY <1>2 DEF RestoreFresh, Boot, TypeOK
  <2>2. /\ \A j \in Ids \union Events : pending[j] \subseteq pending'[j]
        /\ \A j \in Ids : Null \in pending'[j]
    BY <2>1
  <2>3. Numbered' /\ StoredSound' /\ Leaves(StoredManifest)' /\ FlushedSound'
    BY <2>1, <2>2, WorldGrows
  <2>4. /\ Opened(sm).index = {}
        /\ Opened(sm).retired = sm.index \union sm.retired \union (IF HasList THEN Listed ELSE {})
    BY DEF Opened
  <2>5. \A k : Live(k)' <=> Live(k)
    BY <2>1 DEF Live
  <2>6. HasList => \A k \in Ids : Live(k) => k \in Opened(sm).retired
    BY <2>4 DEF Listed, Visible, Numbered
  <2>7. Leaves(man[w])'
    <3>1. abandoned' \subseteq Ids
      BY DEF TypeOK
    <3> QED BY <2>1, <2>2, <3>1 DEF Leaves
  <2>8. IndexSound(w)'
    BY <2>1, <2>4, <2>7 DEF IndexSound
  <2>9. /\ Live(Agent) => n.kind = "archive" /\ n.state = sm
        /\ ~Live(Agent) => n.kind = "fresh" /\ n.state = Opened(sm)
    BY <2>1 DEF NewOp
  <2>10. Live(Agent) => sm = store[Agent].state
    BY DEF StoredManifest
  <2>11. CallSound(w)' /\ CreateSound(w)'
    BY <2>1, <2>9 DEF CallSound, CreateSound
  <2>12. FreshSound(w)'
    BY <2>1, <2>2, <2>4, <2>5, <2>6, <2>9, <2>10 DEF FreshSound
  <2> QED BY <2>3, <2>8, <2>11, <2>12, SoleWriter
<1>3. CASE ArchiveOk(w)
  <2> DEFINE n == NewOp("fresh", Agent, man[w], seqs[w][Agent])
  <2>1. /\ op[w].kind = "archive" /\ op'[w] = n /\ op[w].state \in copies'
        /\ UNCHANGED <<store, phase, man>> /\ UNCHANGED ghosts
    BY <1>3 DEF ArchiveOk, mem, TypeOK
  <2>2. n.kind = "fresh" /\ n.state = man[w]
    BY DEF NewOp
  <2>3. phase[w] = "boot" /\ op[w].state = store[Agent].state
    BY <2>1 DEF FreshSound
  <2>4. Goes(w)
    BY <2>1, StoreGoes
  <2>5. /\ Numbered' /\ StoredSound' /\ Leaves(StoredManifest)' /\ FlushedSound'
        /\ IndexSound(w)'
    BY <2>1, <2>3, <2>4, WorldKept
  <2>6. CallSound(w)' /\ CreateSound(w)'
    BY <2>1, <2>2, <2>3 DEF CallSound, CreateSound
  <2>7. FreshSound(w)'
    BY <2>1, <2>2, <2>3 DEF FreshSound, ghosts, Live
  <2> QED BY <2>5, <2>6, <2>7, SoleWriter
<1> QED BY <1>1, <1>2, <1>3

\* The initial states: nothing is in doubt, and no life has begun.
LEMMA SoleInit == ASSUME Init PROVE SoleInv
<1>1. TypeOK
  BY TypeInit
<1>2. /\ \A k \in Ids \union Events : store[k] = NoRecord
      /\ \A k \in Ids \union Events : accepted[k] = Null
      /\ flushed = {} /\ abandoned = {}
  BY Constants, DurableAssumption DEF Init
<1>3. Numbered /\ StoredSound /\ FlushedSound
  BY <1>2 DEF Numbered, StoredSound, FlushedSound, Live, NoRecord
<1>4. StoredManifest.retired = {}
  <2>1. CASE HadManifest
    BY <2>1, Constants DEF Init, StoredManifest, Live, NoManifest
  <2>2. CASE ~HadManifest
    BY <2>2, Constants DEF Init, StoredManifest, Live, NoManifest, NoRecord
  <2> QED BY <2>1, <2>2
<1>5. Leaves(StoredManifest)
  BY <1>2, <1>4 DEF Leaves
<1>6. \A w \in Writers : phase[w] = "down" /\ op[w].kind = "none"
  BY DEF Init, NoOp
<1>7. \A w \in Writers : CallSound(w) /\ CreateSound(w) /\ FreshSound(w) /\ IndexSound(w)
  BY <1>6 DEF CallSound, CreateSound, FreshSound, IndexSound
<1> QED BY <1>1, <1>3, <1>5, <1>7 DEF SoleInv

\* Every step of the one process keeps the invariant.
LEMMA SoleStep ==
  ASSUME Sole, SoleInv, [Next]_vars PROVE SoleInv'
<1>1. TypeOK'
  BY TypeStep DEF SoleInv
<1>2. ASSUME NEW w \in Writers, Call(w) \/ StoreCall(w) \/ Life(w)
      PROVE  SoleInv'
  <2>1. CASE Call(w)
    BY <1>1, <2>1, CallBegins, CallGoesOn DEF Call
  <2>2. CASE StoreCall(w)
    BY <1>1, <2>2, CallAcknowledged, CallGoesOn, CallEnds, OccupiedSound, LifeBegins
       DEF StoreCall
  <2>3. CASE Life(w)
    BY <1>1, <2>3, LifeBegins, CallEnds DEF Life
  <2> QED BY <1>2, <2>1, <2>2, <2>3
<1>3. CASE UNCHANGED vars
  BY <1>3 DEF vars, SoleInv, TypeOK, StoreKept, CallKept, Numbered, StoredSound, Leaves,
              FlushedSound, CallSound, CreateSound, FreshSound, IndexSound,
              StoredManifest, Live, Ours
<1> QED BY <1>2, <1>3 DEF Next

\* The invariant of one process holds throughout.
THEOREM SoleInvariance == ASSUME Sole PROVE Spec => []SoleInv
<1>1. Init => SoleInv
  BY SoleInit
<1>2. SoleInv /\ [Next]_vars => SoleInv'
  BY SoleStep
<1> QED BY <1>1, <1>2, PTL DEF Spec

\* Accept means durable (state/mod.rs, "accept == durable"): with one process,
\* store.on_error: halt and an adapter with `list', what was acknowledged is what
\* the store holds and what the next restore finds, for any number of records,
\* retries, lost answers, conflicts, crashes and --fresh starts (what one of them
\* abandoned or the stored manifest retires is not promised).
THEOREM AcceptedIsDurable ==
  ASSUME Sole, HasList PROVE Spec => []AcceptedSurvives
<1>1. SoleInv => AcceptedSurvives
  <2> SUFFICES ASSUME SoleInv PROVE AcceptedSurvives
    OBVIOUS
  <2>1. StoredSound /\ Numbered
    BY DEF SoleInv
  <2>2. AcceptedIsStored
    BY <2>1 DEF StoredSound, AcceptedIsStored
  <2>3. AcceptedIsRestorable
    <3> SUFFICES ASSUME NEW k \in Ids, accepted[k] # Null, pending[k] = {},
                        k \notin abandoned, k \notin StoredManifest.retired
                 PROVE  k \in Found
      BY DEF AcceptedIsRestorable
    <3>1. Live(k) /\ k \in Listed
      BY <2>1 DEF StoredSound, Live, Listed, Visible, Numbered
    <3> QED BY <3>1 DEF Found, Adopts
  <2> QED BY <2>2, <2>3 DEF AcceptedSurvives
<1> QED BY <1>1, SoleInvariance, PTL

\* The manifest restores what it indexed (Durable::restore): on any adapter,
\* one without `list' too, and through any --fresh, every restore finds an
\* entity that an accepted flush indexed and whose delete has not begun.
THEOREM FlushedIsFound == ASSUME Sole PROVE Spec => []FlushedIsRestorable
<1>1. SoleInv => FlushedIsRestorable
  BY DEF SoleInv, FlushedSound, FlushedIsRestorable, Found
<1> QED BY <1>1, SoleInvariance, PTL

\* Nothing comes back (Durable::restore, "retired"): what was deleted, or
\* abandoned by a --fresh and not written since, is found by no later restore
\* and indexed by no later life.
THEOREM DroppedIsGone == ASSUME Sole PROVE Spec => []DroppedStaysDropped
<1>1. SoleInv => DroppedStaysDropped
  <2> SUFFICES ASSUME SoleInv, NEW k \in Ids,
                      accepted[k] = Null \/ k \in abandoned, pending[k] = {}
               PROVE  /\ k \notin Found
                      /\ \A w \in Writers : Idle(w) => k \notin man[w].index
    BY DEF DroppedStaysDropped
  <2>1. StoredSound /\ Leaves(StoredManifest)
    BY DEF SoleInv
  <2>2. CASE ~Live(k)
    <3>1. k \notin Found
      BY <2>2 DEF Found
    <3>2. \A w \in Writers : Idle(w) => k \notin man[w].index
      BY <2>2 DEF SoleInv, IndexSound, Idle
    <3> QED BY <3>1, <3>2
  <2>3. CASE Live(k)
    <3>1. k \in abandoned
      BY <2>1, <2>3 DEF StoredSound, Live
    <3>2. k \notin StoredManifest.index /\ (HasList => k \in StoredManifest.retired)
      BY <2>1, <2>3, <3>1 DEF Leaves
    <3>3. k \notin Found
      BY <3>2 DEF Found, Adopts
    <3>4. \A w \in Writers : Idle(w) => k \notin man[w].index
      BY <2>3, <3>1 DEF SoleInv, IndexSound, Leaves, Idle
    <3> QED BY <3>3, <3>4
  <2> QED BY <2>2, <2>3
<1> QED BY <1>1, SoleInvariance, PTL

\* Create-only (Durable::create): no append overwrites an event that is kept,
\* whatever head it was derived from and whatever answers were lost.
THEOREM EventsKept == ASSUME Sole PROVE Spec => EventNeverOverwritten
<1>1. SoleInv /\ [Next]_vars =>
        [\A k \in Events : Live(k) /\ store'[k] # store[k] => store'[k].state = Null]_vars
  <2> SUFFICES ASSUME SoleInv, NEW w \in Writers, Call(w) \/ StoreCall(w) \/ Life(w),
                      NEW k \in Events, Live(k), store'[k] # store[k]
               PROVE  store'[k].state = Null
    BY DEF Next
  <2> USE SoleFacts, DurableAssumption, Constants
  <2>1. CASE op[w].kind = "delete" /\ store' = [store EXCEPT ![op[w].key] = NoRecord]
    BY <2>1 DEF NoRecord, TypeOK
  <2>2. CASE Writing(w) /\ ~op[w].reading /\ Admits(w) /\ Apply(w)
    <3>1. op[w].key = k /\ store'[k].state = op[w].state /\ op[w].seq > store[k].seq
      BY <2>2 DEF Apply, Admits, TypeOK
    <3>2. op[w].kind \in {"create", "tombstone"}
      BY <2>2, <3>1 DEF CallKept, Writing
    <3>3. CASE op[w].kind = "tombstone"
      BY <3>1, <3>3 DEF CallSound
    <3>4. CASE op[w].kind = "create"
      <4>1. CASE op[w].past
        <5>1. store[k] = [seq |-> op[w].seq, state |-> op[w].state]
          BY <3>1, <3>4, <4>1 DEF CreateSound, Ours
        <5>2. store[k].seq = op[w].seq /\ op[w].seq \in Nat
          BY <5>1
        <5> QED BY <3>1, <5>2
      <4>2. CASE ~op[w].past
        <5>1. op[w].seq = 1 /\ store[k].seq \in Nat
          BY <3>4, <4>2 DEF CreateSound
        <5>2. store[k].seq = 0
          BY <3>1, <5>1
        <5> QED BY <5>2 DEF Numbered
      <4> QED BY <4>1, <4>2
    <3> QED BY <3>2, <3>3, <3>4
  <2> QED BY <2>1, <2>2, StoreChange
<1> QED BY <1>1, SoleInvariance, PTL DEF Spec, EventNeverOverwritten

\* The only call that answers Ok(None) is a create-only write that read its
\* key back.
LEMMA OnlyOccupied ==
  ASSUME TypeOK, [Next]_vars, NEW v \in Writers,
         answer[v] # "occupied", answer'[v] = "occupied"
  PROVE  CreateOccupied(v)
<1> USE DEF TypeOK
<1>1. PICK w \in Writers : Call(w) \/ StoreCall(w) \/ Life(w)
  BY DEF Next, vars
<1>2. ~Call(w)
  BY DEF Call, Put, Create, Delete, Get, Flush, ManifestUpdate, BeginEntity, Begin
<1>3. ~Life(w)
  BY DEF Life, Restore, RestoreFresh, Boot, Crash
<1>4. ASSUME NEW ans \in {"ok", "error", "conflict"}, Done(w, ans) PROVE FALSE
  BY <1>4 DEF Done
<1>5. ~PutOk(w) /\ ~PutFailed(w) /\ ~PutConflict(w) /\ ~CreateOurs(w)
  BY <1>4 DEF PutOk, PutFailed, PutConflict, CreateOurs, Made, Fail
<1>6. ~CreateReadFailed(w) /\ ~DeleteOk(w) /\ ~DeleteFailed(w) /\ ~ArchiveFailed(w)
  BY <1>4 DEF CreateReadFailed, DeleteOk, DeleteFailed, ArchiveFailed, Fail
<1>7. /\ ~PutRetried(w) /\ ~PutAdopts(w) /\ ~CreateTaken(w) /\ ~CreatePastTombstone(w)
      /\ ~ArchiveOk(w)
  BY DEF PutRetried, PutAdopts, CreateTaken, CreatePastTombstone, ArchiveOk
<1>8. CreateOccupied(w)
  BY <1>1, <1>2, <1>3, <1>5, <1>6, <1>7 DEF StoreCall
<1>9. answer' = [answer EXCEPT ![w] = "occupied"]
  BY <1>8 DEF CreateOccupied, Done
<1>10. v = w
  BY <1>9
<1> QED BY <1>8, <1>10

\* Ok(None) is true (Durable::create): on an adapter with a physical delete,
\* or one that hides its tombstones and tells a conflict's latest seq, a
\* create-only write is told that its key is taken only by a live record that
\* is not this very write.
THEOREM OccupiedIsTrue ==
  ASSUME Sole, HasDelete \/ (HidesTombstones /\ TellsLatest)
  PROVE  Spec => OccupiedMeansTaken
<1>1. SoleInv /\ [Next]_vars =>
        [\A w \in Writers : answer[w] # "occupied" /\ answer'[w] = "occupied" =>
           Live(op[w].key) /\ store[op[w].key].state # op[w].state]_vars
  <2> SUFFICES ASSUME SoleInv, [Next]_vars, NEW w \in Writers,
                      answer[w] # "occupied", answer'[w] = "occupied"
               PROVE  Live(op[w].key) /\ store[op[w].key].state # op[w].state
    OBVIOUS
  <2> USE SoleFacts
  <2> DEFINE o == op[w]
             k == op[w].key
  <2>1. CreateOccupied(w) /\ TypeOK'
    BY OnlyOccupied, TypeStep
  <2>2. store[k].state # o.state
    BY <2>1, OccupiedSound
  <2>3. /\ o.reading /\ o.kind = "create" /\ k \in Events /\ k \in Keys
        /\ IF Visible(k) THEN ~Ours(w) ELSE ~TellsLatest \/ o.past
        /\ o.seq <= store[k].seq
    BY <2>1 DEF CreateOccupied, CallKept, CreateSound
  <2>4. ~o.past /\ store[k].seq # 0
    <3>1. o.past => Ours(w)
      BY <2>3 DEF CreateSound
    <3>2. ~o.past
      BY <2>2, <3>1 DEF Ours
    <3>3. o.seq = 1
      BY <2>3, <3>2 DEF CreateSound
    <3> QED BY <2>3, <3>2, <3>3
  <2>5. CASE HasDelete
    BY <2>2, <2>3, <2>4, <2>5 DEF Numbered
  <2>6. CASE HidesTombstones /\ TellsLatest
    BY <2>2, <2>3, <2>4, <2>6 DEF Visible
  <2> QED BY <2>2, <2>5, <2>6
<1> QED BY <1>1, SoleInvariance, PTL DEF Spec, OccupiedMeansTaken

\* --fresh loses no index (Durable::restore_fresh): when the empty generation
\* replaces a manifest, a copy of that manifest is in the store already, even
\* when the start is a retry after a crash between the two writes.
THEOREM SupersededKept == ASSUME Sole PROVE Spec => SupersededIndexKept
<1>1. SoleInv /\ [Next]_vars =>
        [\A w \in Writers :
           /\ op[w].kind = "fresh" /\ Live(Agent)
           /\ store'[Agent].state # store[Agent].state
           => store[Agent].state \in copies]_vars
  <2> SUFFICES ASSUME SoleInv, NEW v \in Writers, Call(v) \/ StoreCall(v) \/ Life(v),
                      NEW w \in Writers, op[w].kind = "fresh", Live(Agent),
                      store'[Agent].state # store[Agent].state
               PROVE  store[Agent].state \in copies
    BY DEF Next
  <2>1. v = w
    BY DEF Sole, OneProcess
  <2>2. FreshSound(w) /\ CallSound(w) /\ TypeOK
    BY SoleFacts
  <2>3. Goes(w)
    BY <2>1, <2>2, StoreChange, StoreGoes
  <2>4. store'[Agent].state = op[w].state
    BY <2>2, <2>3 DEF Goes, CallSound
  <2>5. store[Agent].state \in copies \union {op[w].state}
    BY <2>2 DEF FreshSound
  <2> QED BY <2>4, <2>5
<1> QED BY <1>1, SoleInvariance, PTL DEF Spec, SupersededIndexKept
=============================================================================
