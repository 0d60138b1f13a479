------------------------------ MODULE Durable ------------------------------
(***************************************************************************)
(* The durability facade (state/mod.rs) over the four-operation store      *)
(* contract (store/mod.rs): compare-and-set writes with bounded retry,     *)
(* create-only writes, deletes and tombstones, the debounced manifest, the *)
(* restore protocol and --fresh.                                           *)
(*                                                                         *)
(* A writer is one process running under the instance's identity.  Each    *)
(* call of the facade is synchronous, so a writer has at most one          *)
(* operation `op' in flight; a step is one call to the store, and a crash  *)
(* may fall between any two of them.  A store call may fail, and a failed  *)
(* write may have been applied all the same: its answer was lost.          *)
(***************************************************************************)
EXTENDS Naturals, FiniteSets

CONSTANTS
  Writers,          \* processes that run under this instance's identity
  Ids,              \* records of the indexed, reconciled kinds (run, inbox, ...)
  Events,           \* records of kind `event': create-only, never indexed
  Agent,            \* the key of the manifest, manifest/agent
  States,           \* what a record can carry
  Null,             \* `state: null': a tombstone, or nothing at all
  OnError,          \* store.on_error: "halt" or "degrade"
  Retries,          \* Policy.retries: attempts of one store call
  HasList,          \* the adapter supports `list'
  HasDelete,        \* the adapter supports `delete'
  HidesTombstones,  \* `get' of a tombstone answers absent (file, memory)
  TellsLatest,      \* a conflict answer carries the latest seq
  LosesAnswers,     \* a write can be applied although its answer is an error
  AllowFresh,       \* processes may be started with --fresh
  HadManifest,      \* the store already holds a manifest of an earlier life
  MaxSeq,           \* bound on the sequence numbers of records and events
  MaxFlush, MaxGen  \* bounds on those of the manifest and on generations

Keys == Ids \union Events \union {Agent}

ASSUME DurableAssumption ==
  /\ Ids \intersect Events = {} /\ Agent \notin Ids \union Events
  /\ Null \notin States
  /\ OnError \in {"halt", "degrade"}
  /\ Retries \in Nat \ {0}
  /\ {HasList, HasDelete, HidesTombstones, TellsLatest, LosesAnswers,
      AllowFresh, HadManifest} \subseteq BOOLEAN
  /\ {MaxSeq, MaxFlush, MaxGen} \subseteq Nat \ {0}

VARIABLES
  store,     \* the store: key -> latest envelope (seq 0: no record)
  copies,    \* manifest/agent.gen<N>: the indexes --fresh superseded
  phase,     \* writer -> "down", "boot" (inside restore) or "up"
  op,        \* writer -> the facade call in flight
  seqs,      \* Durable.seqs: last known seq per key (0: not warmed)
  man,       \* Durable.manifest
  dirty,     \* Durable.manifest_dirty
  degraded,  \* Durable.degraded
  answer,    \* how the last facade call answered its caller
  accepted,  \* ghost: the state the last acknowledged write of a key carried
  pending,   \* ghost: states of writes begun since and not acknowledged (Null
             \*   for a delete, and for a --fresh that would abandon the key)
  flushed,   \* ghost: entities an accepted flush indexed; a delete or a
             \*   --fresh, once begun, takes its own out
  abandoned  \* ghost: records a --fresh left behind, not written since

vars == <<store, copies, phase, op, seqs, man, dirty, degraded, answer,
          accepted, pending, flushed, abandoned>>
mem == <<seqs, man, dirty, degraded>>
ghosts == <<accepted, pending, flushed, abandoned>>

-----------------------------------------------------------------------------
(* Records.  The manifest keeps, of its fields, the generation, the index  *)
(* of live entities and the entities an earlier --fresh retired.           *)

Manifest == [gen : Nat, index : SUBSET Ids, retired : SUBSET Ids]
NoManifest == [gen |-> 0, index |-> {}, retired |-> {}]

ASSUME NullAssumption == Null \notin Manifest

Contents == States \union {Null} \union Manifest
Envelope == [seq : Nat, state : Contents]
NoRecord == [seq |-> 0, state |-> Null]

Live(k) == store[k].state # Null

\* What `get' answers for key k: an absent record, or a tombstone an adapter
\* hides, is nothing to read.
Visible(k) == store[k].seq # 0 /\ (Live(k) \/ ~HidesTombstones)

\* The keys `list' answers, when the adapter has it.
Listed == {k \in Ids : Visible(k)}

\* The manifest a restore starts from.
StoredManifest == IF Live(Agent) THEN store[Agent].state ELSE NoManifest

-----------------------------------------------------------------------------
(* The facade call in flight.                                              *)

Kinds == {"none", "put", "create", "tombstone", "delete", "flush", "fresh",
          "archive"}

Op == [kind    : Kinds,
       key     : Keys,
       state   : Contents,
       seq     : Nat,
       warmed  : BOOLEAN,   \* this life knew the key's seq
       adopted : BOOLEAN,   \* a conflict's latest seq was adopted already
       past    : BOOLEAN,   \* create-only: writing past a tombstone
       reading : BOOLEAN,   \* create-only: reading back who holds the key
       latest  : Nat,       \* create-only: the latest seq the conflict told
       tries   : Nat]       \* attempts with_retry still has

Answers == {"none", "ok", "occupied", "conflict", "error"}

NoOp == [kind |-> "none", key |-> Agent, state |-> Null, seq |-> 0,
         warmed |-> FALSE, adopted |-> FALSE, past |-> FALSE,
         reading |-> FALSE, latest |-> 0, tries |-> 0]

\* Mutant: a create-only write steps past the seq a read had warmed.
NewOp_CreateKnown(kind, k, s, known) ==
  [NoOp EXCEPT !.kind = kind, !.key = k, !.state = s, !.seq = known + 1,
               !.warmed = kind # "create" /\ known # 0, !.tries = Retries]

\* Durable::write at the head of its loop: a create-only write starts at seq
\* 1 whatever this life knows of the key, any other at the next known seq.
NewOp(kind, k, s, known) ==
  [kind |-> kind, key |-> k, state |-> s,
   seq |-> IF kind = "create" THEN 1 ELSE known + 1,
   warmed |-> kind # "create" /\ known # 0,
   adopted |-> FALSE, past |-> FALSE, reading |-> FALSE, latest |-> 0,
   tries |-> Retries]

Idle(w) == phase[w] = "up" /\ op[w] = NoOp

\* The kinds of call that are a Durable::write.
Writing(w) == op[w].kind \in {"put", "create", "tombstone", "flush", "fresh"}

-----------------------------------------------------------------------------
(* Initial states: a store no life has used, or one an earlier life left   *)
(* with an empty manifest.                                                 *)

Init ==
  /\ store = [k \in Keys |->
                IF k = Agent /\ HadManifest
                THEN [seq |-> 1, state |-> [NoManifest EXCEPT !.gen = 1]]
                ELSE NoRecord]
  /\ copies = {}
  /\ phase = [w \in Writers |-> "down"]
  /\ op = [w \in Writers |-> NoOp]
  /\ seqs = [w \in Writers |-> [k \in Keys |-> 0]]
  /\ man = [w \in Writers |-> NoManifest]
  /\ dirty = [w \in Writers |-> FALSE]
  /\ degraded = [w \in Writers |-> FALSE]
  /\ answer = [w \in Writers |-> "none"]
  /\ accepted = [k \in Ids \union Events |-> Null]
  /\ pending = [k \in Ids \union Events |-> {}]
  /\ flushed = {} /\ abandoned = {}

-----------------------------------------------------------------------------
(* Calls of the facade.                                                    *)

SeqBound(k) == IF k = Agent THEN MaxFlush ELSE MaxSeq

\* The call begins: an attempt to store s under k is now possible.
Begin(w, kind, k, s) ==
  /\ Idle(w)
  /\ seqs[w][k] < SeqBound(k) /\ store[k].seq < SeqBound(k)
  /\ op' = [op EXCEPT ![w] = NewOp(kind, k, s, seqs[w][k])]
  /\ answer' = [answer EXCEPT ![w] = "none"]
  /\ UNCHANGED <<store, copies, phase, accepted, abandoned>> /\ UNCHANGED mem

BeginEntity(w, kind, k, s) ==
  /\ Begin(w, kind, k, s)
  /\ flushed' = IF s = Null THEN flushed \ {k} ELSE flushed
  /\ pending' = [pending EXCEPT ![k] = @ \union {s}]

\* Durable::put of an indexed entity.
Put(w, k, s) == BeginEntity(w, "put", k, s)

\* Durable::create of a stream event.  An event carries its own ULID, so no
\* two creates carry the same state; the head of the stream is derived from
\* the manifest, so two of them can meet on one key.
Create(w, k, s) ==
  /\ \A j \in Events : s \notin pending[j] \union {accepted[j], store[j].state}
  /\ BeginEntity(w, "create", k, s)

\* Durable::delete: the store's delete, or a tombstone where it has none.
Delete(w, k) ==
  BeginEntity(w, IF HasDelete THEN "delete" ELSE "tombstone", k, Null)

\* Durable::flush(force) once the manifest is dirty and the debounce is over.
Flush(w) ==
  /\ dirty[w]
  /\ Begin(w, "flush", Agent, man[w])
  /\ UNCHANGED <<pending, flushed>>

\* Durable::manifest_update: start-node state, budget counters, stream heads.
ManifestUpdate(w) ==
  /\ Idle(w) /\ ~dirty[w]
  /\ dirty' = [dirty EXCEPT ![w] = TRUE]
  /\ UNCHANGED <<store, copies, phase, op, seqs, man, degraded, answer>>
  /\ UNCHANGED ghosts

\* Durable::get: what is read warms the seq map, a visible tombstone too.
Get(w, k) ==
  /\ Idle(w) /\ Visible(k)
  /\ seqs' = [seqs EXCEPT ![w][k] = store[k].seq]
  /\ UNCHANGED <<store, copies, phase, op, man, dirty, degraded, answer>>
  /\ UNCHANGED ghosts

-----------------------------------------------------------------------------
(* One store call, and what the facade makes of its answer.                *)

\* Mutant: a compare-and-set that accepts an equal seq.
Admits_Equal(w) == op[w].seq >= store[op[w].key].seq

\* Store::put of the in-flight envelope: it must exceed the stored seq.
Admits(w) == op[w].seq > store[op[w].key].seq

Apply(w) ==
  store' = [store EXCEPT ![op[w].key] = [seq |-> op[w].seq, state |-> op[w].state]]

Done(w, ans) ==
  /\ op' = [op EXCEPT ![w] = NoOp]
  /\ answer' = [answer EXCEPT ![w] = ans]

\* What a process loses when it ends.
Forget(w) ==
  /\ seqs' = [seqs EXCEPT ![w] = [k \in Keys |-> 0]]
  /\ man' = [man EXCEPT ![w] = NoManifest]
  /\ dirty' = [dirty EXCEPT ![w] = FALSE]
  /\ degraded' = [degraded EXCEPT ![w] = FALSE]

\* A failed facade call.  Inside restore it fails the start, and the process
\* exits; otherwise the error goes to the caller.
Fail(w, ans) ==
  /\ Done(w, ans)
  /\ phase' = [phase EXCEPT ![w] = IF @ = "boot" THEN "down" ELSE @]
  /\ IF phase[w] = "boot" THEN Forget(w) ELSE UNCHANGED mem
  /\ UNCHANGED ghosts

\* The write counts as made: the seq is remembered, the manifest indexes or
\* drops the entity, a flush leaves the manifest clean, and a restore is over.
\* `indexes' is FALSE for the write a degraded store did not take.
Made(w, indexes) ==
  LET o == op[w] IN
  /\ Done(w, "ok")
  /\ seqs' = [seqs EXCEPT ![w][o.key] = o.seq]
  /\ man' = [man EXCEPT ![w].index =
        CASE o.kind = "tombstone" -> @ \ {o.key}
          [] o.kind = "put" /\ indexes -> @ \union {o.key}
          [] OTHER -> @]
  /\ dirty' = [dirty EXCEPT ![w] =
        /\ o.kind \notin {"flush", "fresh"}
        /\ @ \/ (o.key \in Ids /\ (indexes \/ o.kind = "tombstone"))]
  /\ phase' = [phase EXCEPT ![w] = "up"]
  /\ accepted' = IF o.key = Agent THEN accepted
                 ELSE [accepted EXCEPT ![o.key] = o.state]
  /\ abandoned' = IF o.kind = "fresh" THEN Ids ELSE abandoned \ {o.key}
  /\ flushed' = IF o.kind = "flush" /\ phase[w] = "up"
                THEN {k \in man[w].index : Null \notin pending[k]}
                ELSE flushed
  /\ pending' = CASE o.kind = "fresh" ->
                       [k \in Ids \union Events |->
                          IF k \in Ids THEN {} ELSE pending[k]]
                  [] o.key # Agent -> [pending EXCEPT ![o.key] = {}]
                  [] OTHER -> pending

\* The store took the write and said so.
PutOk(w) ==
  /\ Writing(w) /\ ~op[w].reading /\ Admits(w)
  /\ Apply(w)
  /\ Made(w, TRUE)
  /\ degraded' = [degraded EXCEPT ![w] = FALSE]
  /\ UNCHANGED copies

\* Mutant: with_retry forgets to count its attempts against the policy.
PutRetried_Uncounted(w) ==
  /\ Writing(w) /\ ~op[w].reading
  /\ op' = [op EXCEPT ![w].tries = @ - 1]
  /\ UNCHANGED <<store, copies, phase, answer>> /\ UNCHANGED mem
  /\ UNCHANGED ghosts

\* An i/o error with attempts left: with_retry sends the same envelope again.
\* The failed attempt may have been applied.
PutRetried(w) ==
  /\ Writing(w) /\ ~op[w].reading /\ op[w].tries > 1
  /\ op' = [op EXCEPT ![w].tries = @ - 1]
  /\ \/ UNCHANGED store
     \/ LosesAnswers /\ Admits(w) /\ Apply(w)
  /\ UNCHANGED <<copies, phase, answer>> /\ UNCHANGED mem /\ UNCHANGED ghosts

\* The last attempt failed: store.on_error decides.
PutFailed(w) ==
  /\ Writing(w) /\ ~op[w].reading /\ op[w].tries = 1
  /\ \/ UNCHANGED store
     \/ LosesAnswers /\ Admits(w) /\ Apply(w)
  /\ \/ OnError = "halt" /\ Fail(w, "error")
     \/ /\ OnError = "degrade" /\ Made(w, FALSE)
        /\ degraded' = [degraded EXCEPT ![w] = TRUE]
  /\ UNCHANGED copies

\* A conflict on a key this life had not touched: its latest seq is adopted
\* and the write goes round once more.
PutAdopts(w) ==
  LET latest == store[op[w].key].seq IN
  /\ Writing(w) /\ op[w].kind # "create" /\ ~Admits(w)
  /\ TellsLatest /\ ~op[w].warmed /\ ~op[w].adopted
  /\ seqs' = [seqs EXCEPT ![w][op[w].key] = latest]
  /\ op' = [op EXCEPT ![w].seq = latest + 1, ![w].adopted = TRUE,
                      ![w].warmed = TRUE, ![w].tries = Retries]
  /\ UNCHANGED <<store, copies, phase, man, dirty, degraded, answer>>
  /\ UNCHANGED ghosts

\* Any other conflict of a put is fatal: "another writer owns it".
PutConflict(w) ==
  /\ Writing(w) /\ op[w].kind # "create" /\ ~Admits(w)
  /\ ~TellsLatest \/ op[w].warmed \/ op[w].adopted
  /\ Fail(w, "conflict")
  /\ UNCHANGED <<store, copies>>

\* A create-only write found the key taken and goes to see by whom.
CreateTaken(w) ==
  /\ op[w].kind = "create" /\ ~op[w].reading /\ ~Admits(w)
  /\ op' = [op EXCEPT ![w].reading = TRUE, ![w].latest = store[op[w].key].seq]
  /\ UNCHANGED <<store, copies, phase, answer>> /\ UNCHANGED mem
  /\ UNCHANGED ghosts

\* Mutant: whatever holds the key at this seq is taken for this write.
Ours_SeqOnly(w) == store[op[w].key].seq = op[w].seq

\* Mutant: a create never recognises its own write.
Ours_Never(w) == FALSE /\ w \in Writers

\* The record read back is this very write: seq, ts, instance and state.
Ours(w) ==
  store[op[w].key] = [seq |-> op[w].seq, state |-> op[w].state]

\* Holder::Ours: the store applied this very write and its answer was lost.
CreateOurs(w) ==
  /\ op[w].reading /\ Visible(op[w].key) /\ Ours(w)
  /\ Made(w, TRUE)
  /\ degraded' = [degraded EXCEPT ![w] = FALSE]
  /\ UNCHANGED <<store, copies>>

\* Mutant: the write goes round at seq 1 again, and again.
CreatePastTombstone_SeqOne(w) ==
  /\ op[w].reading /\ ~Visible(op[w].key)
  /\ op' = [op EXCEPT ![w].reading = FALSE, ![w].tries = Retries]
  /\ UNCHANGED <<store, copies, phase, answer>> /\ UNCHANGED mem
  /\ UNCHANGED ghosts

\* Holder::Tombstone, the first time: the key is free, written past it.
CreatePastTombstone(w) ==
  /\ op[w].reading /\ ~Visible(op[w].key) /\ TellsLatest /\ ~op[w].past
  /\ op' = [op EXCEPT ![w].reading = FALSE, ![w].past = TRUE,
                      ![w].seq = op[w].latest + 1, ![w].tries = Retries]
  /\ UNCHANGED <<store, copies, phase, answer>> /\ UNCHANGED mem
  /\ UNCHANGED ghosts

\* Holder::Other, or a second tombstone: Ok(None), the record stays.
CreateOccupied(w) ==
  LET k == op[w].key IN
  /\ op[w].reading
  /\ IF Visible(k) THEN ~Ours(w) ELSE ~TellsLatest \/ op[w].past
  /\ Done(w, "occupied")
  /\ seqs' = IF TellsLatest THEN [seqs EXCEPT ![w][k] = op[w].latest] ELSE seqs
  /\ pending' = [pending EXCEPT ![k] = @ \ {op[w].state}]
  /\ UNCHANGED <<store, copies, phase, man, dirty, degraded>>
  /\ UNCHANGED <<accepted, flushed, abandoned>>

\* The read back itself failed: its error is the caller's, whatever the policy.
CreateReadFailed(w) ==
  /\ op[w].reading
  /\ Fail(w, "error")
  /\ UNCHANGED <<store, copies>>

\* Store::delete took the record away, unconditionally.
DeleteOk(w) ==
  LET k == op[w].key IN
  /\ op[w].kind = "delete"
  /\ store' = [store EXCEPT ![k] = NoRecord]
  /\ seqs' = [seqs EXCEPT ![w][k] = 0]
  /\ man' = [man EXCEPT ![w].index = @ \ {k}]
  /\ dirty' = [dirty EXCEPT ![w] = @ \/ k \in Ids]
  /\ Done(w, "ok")
  /\ accepted' = [accepted EXCEPT ![k] = Null]
  /\ pending' = [pending EXCEPT ![k] = {}]
  /\ abandoned' = abandoned \ {k}
  /\ UNCHANGED <<copies, phase, degraded, flushed>>

\* Store::delete failed; the record may be gone all the same.
DeleteFailed(w) ==
  LET k == op[w].key IN
  /\ op[w].kind = "delete"
  /\ store' \in {store} \union
       (IF LosesAnswers THEN {[store EXCEPT ![k] = NoRecord]} ELSE {})
  /\ IF op[w].tries > 1
     THEN /\ op' = [op EXCEPT ![w].tries = @ - 1]
          /\ UNCHANGED <<phase, answer>> /\ UNCHANGED mem /\ UNCHANGED ghosts
     ELSE Fail(w, "error")
  /\ UNCHANGED copies

-----------------------------------------------------------------------------
(* Lives.                                                                  *)

\* Mutant: the restore takes a record of an abandoned generation back.
Adopts_Retired == IF HasList THEN Listed \ StoredManifest.index ELSE {}

\* Records `list' finds beside the index, unless an earlier --fresh retired them.
Adopts ==
  IF HasList THEN Listed \ (StoredManifest.index \union StoredManifest.retired)
  ELSE {}

\* Mutant: a retired id is passed over among the indexed ones too.
Found_Unretired ==
  {k \in (StoredManifest.index \union Adopts) \ StoredManifest.retired : Live(k)}

\* The entities a restore finds; what is indexed and missing is lost.
Found == {k \in StoredManifest.index \union Adopts : Live(k)}

\* The seqs a restore warms: the manifest's, and every record it read.
Warm(read) ==
  [k \in Keys |-> IF k \in read \union {Agent} /\ Visible(k)
                  THEN store[k].seq ELSE 0]

\* The manifest a resuming life writes: the next generation, indexing what
\* was found, the retired set pruned to what `list' still sees.
Resumed(m) ==
  [gen |-> m.gen + 1, index |-> Found,
   retired |-> IF HasList THEN m.retired \intersect Listed ELSE m.retired]

\* The manifest a --fresh life writes: an empty generation that retires what
\* `list' sees and what the manifest indexed or had retired.
Opened(m) ==
  [gen |-> m.gen + 1, index |-> {},
   retired |-> m.index \union m.retired \union (IF HasList THEN Listed ELSE {})]

\* A start reads the store and goes on to write manifest m, after `first'.
Boot(w, m, warm, first) ==
  /\ phase[w] = "down" /\ StoredManifest.gen < MaxGen /\ store[Agent].seq < MaxFlush
  /\ phase' = [phase EXCEPT ![w] = "boot"]
  /\ man' = [man EXCEPT ![w] = m]
  /\ dirty' = [dirty EXCEPT ![w] = TRUE]
  /\ seqs' = [seqs EXCEPT ![w] = warm]
  /\ op' = [op EXCEPT ![w] = first]
  /\ answer' = [answer EXCEPT ![w] = "none"]
  /\ UNCHANGED <<store, copies, degraded, accepted, abandoned>>

\* Durable::restore: the reads, then the flush of the next generation, whose
\* answer ends the restore.
Restore(w) ==
  LET m == Resumed(StoredManifest)
      warm == Warm(StoredManifest.index \union Adopts)
  IN  /\ Boot(w, m, warm, NewOp("flush", Agent, m, warm[Agent]))
      /\ UNCHANGED <<pending, flushed>>

\* Durable::restore_fresh: a copy of the outgoing manifest first, if there is
\* one, then the flush of the empty generation.
RestoreFresh(w) ==
  LET m == Opened(StoredManifest)
      warm == Warm({})
  IN  /\ AllowFresh
      /\ Boot(w, m, warm, IF Live(Agent)
                          THEN NewOp("archive", Agent, StoredManifest, 0)
                          ELSE NewOp("fresh", Agent, m, warm[Agent]))
      /\ pending' = [k \in Ids \union Events |->
                       IF k \in Ids THEN pending[k] \union {Null} ELSE pending[k]]
      /\ flushed' = {}

\* The put of manifest/agent.gen<N>, a key of its own: taken (a copy an
\* earlier interrupted --fresh left there is adopted and written over), then
\* the flush of the new generation ...
ArchiveOk(w) ==
  /\ op[w].kind = "archive"
  /\ copies' = {c \in copies : c.gen # op[w].state.gen} \union {op[w].state}
  /\ op' = [op EXCEPT ![w] = NewOp("fresh", Agent, man[w], seqs[w][Agent])]
  /\ UNCHANGED <<store, phase, answer>> /\ UNCHANGED mem /\ UNCHANGED ghosts

\* Mutant: a copy that could not be kept does not stop the start.
ArchiveFailed_Ignored(w) ==
  /\ op[w].kind = "archive"
  /\ op' = [op EXCEPT ![w] = NewOp("fresh", Agent, man[w], seqs[w][Agent])]
  /\ UNCHANGED <<store, copies, phase, answer>> /\ UNCHANGED mem
  /\ UNCHANGED ghosts

\* ... or refused to the last attempt: the start fails, unless degraded.
ArchiveFailed(w) ==
  /\ op[w].kind = "archive"
  /\ \/ OnError = "halt" /\ Fail(w, "error")
     \/ /\ OnError = "degrade"
        /\ op' = [op EXCEPT ![w] = NewOp("fresh", Agent, man[w], seqs[w][Agent])]
        /\ degraded' = [degraded EXCEPT ![w] = TRUE]
        /\ UNCHANGED <<phase, answer, seqs, man, dirty>> /\ UNCHANGED ghosts
  /\ UNCHANGED <<store, copies>>

\* The process dies, at any point: what it held in memory is gone.
Crash(w) ==
  /\ phase[w] # "down"
  /\ phase' = [phase EXCEPT ![w] = "down"]
  /\ op' = [op EXCEPT ![w] = NoOp]
  /\ Forget(w)
  /\ answer' = [answer EXCEPT ![w] = "none"]
  /\ UNCHANGED <<store, copies>> /\ UNCHANGED ghosts

-----------------------------------------------------------------------------
Call(w) ==
  \/ \E k \in Ids, s \in States : Put(w, k, s)
  \/ \E k \in Events, s \in States : Create(w, k, s)
  \/ \E k \in Ids \union Events : Delete(w, k)
  \/ \E k \in Ids \union Events : Get(w, k)
  \/ Flush(w) \/ ManifestUpdate(w)

StoreCall(w) ==
  \/ PutOk(w) \/ PutRetried(w) \/ PutFailed(w)
  \/ PutAdopts(w) \/ PutConflict(w)
  \/ CreateTaken(w) \/ CreateOurs(w) \/ CreatePastTombstone(w)
  \/ CreateOccupied(w) \/ CreateReadFailed(w)
  \/ DeleteOk(w) \/ DeleteFailed(w)
  \/ ArchiveOk(w) \/ ArchiveFailed(w)

Life(w) == Restore(w) \/ RestoreFresh(w) \/ Crash(w)

Next == \E w \in Writers : Call(w) \/ StoreCall(w) \/ Life(w)

Spec == Init /\ [][Next]_vars

\* Every call to the store returns: "every operation is bounded by the
\* adapter's timeout, so no store call can wedge a worker" (store/mod.rs).
FairSpec == Spec /\ \A w \in Writers : WF_vars(StoreCall(w))

-----------------------------------------------------------------------------
(* Properties.                                                             *)

\* A call in flight stores a manifest under the manifest's key or an entity
\* or event under its own, and only a create-only write reads back.
CallKept(w) ==
  /\ op[w].kind \in {"flush", "fresh", "archive"} =>
       op[w].key = Agent /\ op[w].state \in Manifest
  /\ op[w].kind \in {"put", "create", "tombstone", "delete"} =>
       op[w].key \in Ids \union Events /\ op[w].state \in States \union {Null}
  /\ op[w].kind = "put" => op[w].key \in Ids
  /\ op[w].kind = "create" => op[w].key \in Events /\ op[w].state \in States
  /\ op[w].reading => op[w].kind = "create"

\* Manifests, and nothing else, are kept under the manifest's key.
StoreKept ==
  /\ store[Agent].state \in Manifest \union {Null}
  /\ \A k \in Ids \union Events : store[k].state \in States \union {Null}

\* Type correctness of the store, of each life's memory and of the ghosts.
TypeOK ==
  /\ store \in [Keys -> Envelope]
  /\ copies \subseteq Manifest
  /\ phase \in [Writers -> {"down", "boot", "up"}]
  /\ op \in [Writers -> Op]
  /\ seqs \in [Writers -> [Keys -> Nat]]
  /\ man \in [Writers -> Manifest]
  /\ dirty \in [Writers -> BOOLEAN]
  /\ degraded \in [Writers -> BOOLEAN]
  /\ answer \in [Writers -> Answers]
  /\ accepted \in [Ids \union Events -> States \union {Null}]
  /\ pending \in [Ids \union Events -> SUBSET (States \union {Null})]
  /\ flushed \subseteq Ids /\ abandoned \subseteq Ids
  /\ StoreKept
  /\ \A w \in Writers : CallKept(w)

\* Accept means durable: with one writer and store.on_error: halt, a record
\* is what the last acknowledged write of it left, or what a write that was
\* begun since and never acknowledged left (its answer was lost, or the
\* process died), whatever retries, conflicts, restarts and crashes between.
\* A record that a --fresh abandoned is no longer promised.
AcceptedIsStored ==
  \A k \in (Ids \union Events) \ abandoned :
     store[k].state \in {accepted[k]} \union pending[k]

\* Nothing acknowledged is lost by a crash: whenever the process dies, the
\* next restore finds every entity written and not deleted, whether or not
\* the debounced manifest had indexed it.  (One that a --fresh retired and this
\* life has written again is hidden until the manifest says so: while the
\* stored one still retires it, only FlushedIsRestorable speaks of it.)
AcceptedIsRestorable ==
  \A k \in Ids :
     accepted[k] # Null /\ pending[k] = {} /\ k \notin abandoned \union StoredManifest.retired =>
        k \in Found

\* Both: what was acknowledged is what the store holds and what the next life
\* finds, through lost answers, retries, conflicts and crashes.
AcceptedSurvives == AcceptedIsStored /\ AcceptedIsRestorable

\* The manifest alone restores what it indexed: on any adapter, one without
\* `list' too, an entity an accepted flush indexed is found by every restore
\* until its delete begins, whatever was abandoned and retired in between.
FlushedIsRestorable ==
  \A k \in flushed : k \in Found

\* Nothing comes back from the dead: an entity whose delete was acknowledged
\* (a processed inbox event, a fired timer), or that a --fresh abandoned and
\* nothing wrote since, is found by no later restore and is in no later
\* index, through any number of restarts.
DroppedStaysDropped ==
  \A k \in Ids :
     (accepted[k] = Null \/ k \in abandoned) /\ pending[k] = {} =>
        /\ k \notin Found
        /\ \A w \in Writers : Idle(w) => k \notin man[w].index

\* An event, once kept, is never overwritten: a live event record only ever
\* leaves the store by a delete, whoever appends to a head that a crash moved
\* back and whatever this life had read or written there.
EventNeverOverwritten ==
  [][\A k \in Events : Live(k) /\ store'[k] # store[k] =>
        store'[k].state = Null]_vars

\* Ok(None) of a create-only write means the key holds a live record that is
\* not this very write: a tombstoned key is written past, and a create whose
\* answer was lost is reported created.
OccupiedMeansTaken ==
  [][\A w \in Writers : answer[w] # "occupied" /\ answer'[w] = "occupied" =>
        Live(op[w].key) /\ store[op[w].key].state # op[w].state]_vars

\* The split-brain guard of the manifest: a life that a later life
\* superseded never again gets its manifest accepted, so the generation in
\* the store never goes back.
GenerationNeverRegresses ==
  [][Live(Agent) => Live(Agent)' /\ StoredManifest'.gen >= StoredManifest.gen]_vars

\* No update between two writers is lost on a key both know: an accepted
\* write of a key whose seq this life knew replaces exactly the record it
\* had last read or written there.  (Where deletes leave tombstones: a
\* physical delete restarts the key's seqs.)
NoLostUpdate ==
  [][\A w \in Writers :
        PutOk(w) /\ op[w].warmed => store[op[w].key].seq = seqs[w][op[w].key]]_vars

\* A conflict means a second writer: one process alone is never told that
\* another writer owns its key.
ConflictMeansSecondWriter ==
  Cardinality(Writers) = 1 => \A w \in Writers : answer[w] # "conflict"

\* --fresh loses no index: when a new generation replaces a manifest, the
\* replaced manifest is among the copies already, so a crash between the two
\* writes leaves a stray copy and never a lost one.
SupersededIndexKept ==
  [][\A w \in Writers :
        /\ op[w].kind = "fresh" /\ Live(Agent)
        /\ store'[Agent].state # store[Agent].state
        => store[Agent].state \in copies]_vars

\* Every call of the facade ends: retries, the one adoption and the one step
\* past a tombstone are bounded, even with a second writer racing.
CallsEnd == \A w \in Writers : op[w] # NoOp ~> op[w] = NoOp
=============================================================================
