---------------------------- MODULE GraphProofs -----------------------------
(***************************************************************************)
(* Proofs about a run of a workflow, for every family of definitions that  *)
(* loads, every limit of steps and any number of crashes.                  *)
(***************************************************************************)
EXTENDS Graph, SequenceLemmas, FiniteSetTheorems, WellFoundedInduction, TLAPS

---------------------------------------------------------------------------
(* What holds of every record of the run: in memory, at rest, and inside a *)
(* pass.                                                                   *)

\* A guard that is done, with no mark on its step, was asked about this start.
AskedAbout(w, r) ==
  \A t \in DOMAIN w : w[t].guard # None /\ ~r.forced[t] /\ r.status[w[t].guard] = "done" =>
    t \in r.asked

\* A mark comes from an edge, to the step or to the step it guards.
MarkFromEdge(w, r) ==
  \A s \in DOMAIN w : r.forced[s] => ({s} \union Guarding(w, s)) \intersect r.routed # {}

\* Only asking a guard takes a mark off.
MarkStays(w, r) == \A s \in r.routed : w[s].guard = None => r.forced[s]

\* The history knows how a step that counts as settled has ended.
EndsKnown(w, r) ==
  \A s \in DOMAIN w : r.status[s] \in {"done", "skipped", "pruned"} => r.status[s] \in r.ends[s]

\* A start node runs again only when an edge leads to it.
StartsOver(w, r) ==
  \A s \in DOMAIN w : w[s].kind = "start" /\ ~r.forced[s] => Terminal(r.status[s])

\* Steps are cancelled by the end of the run only.
CancelledAtEnd(w, r) == ~Over(r) => \A s \in DOMAIN w : r.status[s] # "cancelled"

\* A switch ends in the step that starts it, and does not time out.
SwitchAtOnce(w, r) ==
  \A s \in DOMAIN w : w[s].kind = "switch" => r.status[s] \notin {"running", "skipped", "timeout"}

Sound(w, r) ==
  /\ AskedAbout(w, r) /\ MarkFromEdge(w, r) /\ MarkStays(w, r) /\ EndsKnown(w, r)
  /\ StartsOver(w, r) /\ CancelledAtEnd(w, r)

---------------------------------------------------------------------------
(* What a ready list says of its steps, while the run goes on.             *)

Early(w, r, s) ==
  \/ ({s} \union Guarding(w, s)) \intersect r.routed # {}
  \/ /\ \A d \in w[s].deps : r.ends[d] # {}
     /\ \E d \in w[s].deps : r.ends[d] \intersect {"done", "skipped"} # {}

Guarded(w, r, s) == w[s].guard # None => GuardHolds(w, r, s) /\ s \in r.asked

ReadySound(w, r, q) ==
  \A s \in q : /\ r.status[s] \in {"pending", "pruned"}
               /\ GuardsPrivate(w) => Early(w, r, s) /\ Guarded(w, r, s)

---------------------------------------------------------------------------
(* The arms of a switch.                                                   *)

\* t has not run and, as long as the switch is not done, cannot be made to.
Untouched(w, r, q, s, t) ==
  /\ r.attempt[t] = 0 /\ ~r.forced[t] /\ r.status[t] \in {"pending", "pruned", "cancelled"}
  /\ r.status[s] = "done" => r.status[t] = "pruned"
  /\ r.status[s] # "done" =>
       /\ t \notin q
       /\ w[t].guard # None =>
            /\ r.attempt[w[t].guard] = 0 /\ ~r.forced[w[t].guard] /\ w[t].guard \notin q
            /\ r.status[w[t].guard] \in {"pending", "pruned", "cancelled"}

\* All arms but one are untouched, and all of them before the switch ends.
OneArm(w, r, q, s) ==
  /\ \E c \in w[s].cases : \A t \in w[s].cases \ {c} : Untouched(w, r, q, s, t)
  /\ r.status[s] \in {"pending", "suspended"} => \A t \in w[s].cases : Untouched(w, r, q, s, t)

ArmsSound(w, r, q) ==
  \A s \in DOMAIN w :
    w[s].cases # {} /\ Exclusive(w, s) /\ "pruned" \notin r.ends[s] => OneArm(w, r, q, s)

---------------------------------------------------------------------------
(* The inductive invariant.                                                *)

\* The record at rest is behind the one in memory.
Lagging ==
  /\ \A s \in S : saved.attempt[s] <= run.attempt[s]
  /\ \A s \in run.replaying : saved.status[s] = "pruned" => run.status[s] = "pruned"
  /\ Over(saved) => Over(run)

\* A run that has ended takes no more steps.
Stopped ==
  Over(run) => queue = << >> /\ \A s \in S : flight[s] = 0 /\ Terminal(run.status[s])

IInv ==
  /\ Sound(wf, run) /\ Sound(wf, saved) /\ SwitchAtOnce(wf, run) /\ SwitchAtOnce(wf, saved)
  /\ ReadySound(wf, run, Range(queue))
  /\ ArmsSound(wf, run, Range(queue)) /\ ArmsSound(wf, saved, {})
  /\ \A s \in S : flight[s] > 0 => run.attempt[s] > 0 /\ s \notin run.replaying
  /\ Lagging /\ Stopped /\ StalledMeansExhausted
  /\ Range(order) = S

---------------------------------------------------------------------------
(* Definitions that load.                                                  *)

\* What the loader guarantees of a step, and of its guard.
Plainly(w, s) ==
  /\ w[s].kind \in Kinds /\ w[s].deps \subseteq DOMAIN w /\ w[s].cases \subseteq DOMAIN w
  /\ w[s].cases # {} => w[s].kind = "switch"
  /\ w[s].kind = "start" => w[s].deps = {}
  /\ w[s].kind = "guard" => Guarding(w, s) # {}
  /\ w[s].onError \in {"fail", "continue"} \union DOMAIN w
  /\ w[s].onTimeout \in {None} \union DOMAIN w
  /\ w[s].retry \in Nat /\ w[s].when \in BOOLEAN /\ w[s].onReplay \in {"retry", "skip", "fail"}
  /\ s \notin {None, "fail", "continue"}

WellGuarded(w, t) ==
  LET g == w[t].guard IN
  /\ g \in DOMAIN w /\ w[t].deps = {g} /\ Guarding(w, g) = {t}
  /\ ~w[t].when /\ w[t].kind # "start" /\ w[g].kind = "guard" /\ w[g].guard = None
  /\ ~w[g].when /\ w[g].retry = 0 /\ w[g].onError = "fail" /\ w[g].onTimeout = None

\* The checks of parse_step and validate_graph, step by step.
LEMMA Loaded ==
  ASSUME NEW w \in Workflows
  PROVE  \A s \in DOMAIN w : Plainly(w, s) /\ (w[s].guard # None => WellGuarded(w, s))
<1>1. /\ Range(Ids) \intersect {None, "fail", "continue"} = {} /\ DOMAIN w \subseteq Range(Ids)
      /\ \A s \in DOMAIN w : w[s] \in Step
      /\ Parsed(w) /\ Valid(w)
  BY GraphAssumption
<1> SUFFICES ASSUME NEW s \in DOMAIN w
             PROVE  Plainly(w, s) /\ (w[s].guard # None => WellGuarded(w, s))
  OBVIOUS
<1>2. w[s] \in Step
  BY <1>1
<1>3. Plainly(w, s)
  <2>1. /\ w[s].kind \in Kinds /\ w[s].retry \in Nat /\ w[s].when \in BOOLEAN
        /\ w[s].onReplay \in {"retry", "skip", "fail"}
    BY <1>2 DEF Step
  <2>2. /\ w[s].deps \subseteq DOMAIN w
        /\ w[s].onError \in {"fail", "continue"} \union DOMAIN w
        /\ w[s].onTimeout \in {None} \union DOMAIN w
    BY <1>1 DEF Valid
  <2>3. /\ w[s].cases \subseteq DOMAIN w /\ (w[s].cases # {} => w[s].kind = "switch")
        /\ (w[s].kind = "start" => w[s].deps = {})
        /\ (w[s].kind = "guard" => Guarding(w, s) # {})
    BY <1>1 DEF Parsed
  <2>4. s \notin {None, "fail", "continue"}
    BY <1>1
  <2> QED BY <2>1, <2>2, <2>3, <2>4 DEF Plainly
<1>4. w[s].guard # None => WellGuarded(w, s)
  BY <1>1 DEF Parsed, WellGuarded
<1> QED BY <1>3, <1>4

---------------------------------------------------------------------------
(* What the operations on the record leave in its fields.                  *)

\* end_step.
EndsAs(w, r, q, s, st) ==
  /\ q \in Record(w)
  /\ q.status = [r.status EXCEPT ![s] = st]
  /\ q.ends = [r.ends EXCEPT ![s] = @ \union {st}]
  /\ q.forced = r.forced /\ q.holds = r.holds /\ q.attempt = r.attempt
  /\ q.outcome = r.outcome /\ q.routed = r.routed /\ q.asked = r.asked
  /\ q.replaying = r.replaying

LEMMA EndFields ==
  ASSUME NEW w, NEW r \in Record(w), NEW s \in DOMAIN w, NEW st \in Statuses
  PROVE  EndsAs(w, r, End(r, s, st), s, st)
<1>1. r.count + 1 \in Nat
  BY DEF Record
<1>2. End(r, s, st) \in Record(w)
  BY <1>1 DEF Record, End
<1> QED BY <1>1, <1>2 DEF Record, End, EndsAs

\* begin_step.
BeginsAs(w, r, q, s) ==
  /\ q \in Record(w)
  /\ q.status = [r.status EXCEPT ![s] = "running"]
  /\ q.attempt = [r.attempt EXCEPT ![s] = @ + 1]
  /\ q.replaying = r.replaying \ {s}
  /\ q.forced = r.forced /\ q.holds = r.holds /\ q.ends = r.ends
  /\ q.outcome = r.outcome /\ q.routed = r.routed /\ q.asked = r.asked

LEMMA BeginFields ==
  ASSUME NEW w, NEW r \in Record(w), NEW s \in DOMAIN w
  PROVE  BeginsAs(w, r, Begin(r, s), s)
<1>1. r.attempt[s] + 1 \in Nat
  BY DEF Record
<1>2. Begin(r, s) \in Record(w)
  BY <1>1 DEF Record, Begin, Statuses
<1> QED BY <1>1, <1>2 DEF Record, Begin, BeginsAs

\* A status that is set, and nothing else.
SetsTo(w, r, q, s, st) ==
  /\ q \in Record(w)
  /\ q.status = [r.status EXCEPT ![s] = st]
  /\ q.attempt = r.attempt /\ q.replaying = r.replaying
  /\ q.forced = r.forced /\ q.holds = r.holds /\ q.ends = r.ends
  /\ q.outcome = r.outcome /\ q.routed = r.routed /\ q.asked = r.asked

LEMMA StatusFields ==
  ASSUME NEW w, NEW r \in Record(w), NEW s \in DOMAIN w, NEW st \in Statuses
  PROVE  SetsTo(w, r, [r EXCEPT !.status[s] = st], s, st)
BY DEF Record, SetsTo

\* finish.
FinishesAs(w, r, q, o) ==
  /\ q \in Record(w)
  /\ q.status = [s \in DOMAIN w |-> IF Terminal(r.status[s]) THEN r.status[s] ELSE "cancelled"]
  /\ q.outcome = o
  /\ q.attempt = r.attempt /\ q.replaying = r.replaying
  /\ q.forced = r.forced /\ q.holds = r.holds /\ q.ends = r.ends
  /\ q.routed = r.routed /\ q.asked = r.asked

LEMMA FinishFields ==
  ASSUME NEW w, NEW r \in Record(w), NEW o \in Outcomes
  PROVE  FinishesAs(w, r, Finish(r, o), o)
BY DEF Finish, Record, Statuses, FinishesAs

\* An edge taken.
RoutesAs(w, r, q, t) ==
  /\ q \in Record(w)
  /\ q.status = [r.status EXCEPT ![t] = "pending"]
  /\ q.forced = [r.forced EXCEPT ![t] = TRUE]
  /\ q.routed = r.routed \union {t}
  /\ q.replaying = r.replaying \ {t}
  /\ q.asked = IF r.status[t] \in {"pending", "pruned", "skipped"}
               THEN r.asked ELSE r.asked \ {t}
  /\ q.holds = r.holds /\ q.ends = r.ends /\ q.attempt = r.attempt
  /\ q.outcome = r.outcome

LEMMA RouteFields ==
  ASSUME NEW w, NEW r \in Record(w), NEW t \in DOMAIN w
  PROVE  RoutesAs(w, r, Route(r, t), t)
BY DEF Route, Record, Statuses, RoutesAs

\* A guard asked.
AsksAs(w, r, q, s) ==
  LET g == w[s].guard
      busy == r.status[g] \in {"running", "suspended"} IN
  /\ q \in Record(w)
  /\ q.status = IF busy THEN r.status ELSE [r.status EXCEPT ![g] = "pending"]
  /\ q.forced = IF busy THEN [r.forced EXCEPT ![s] = FALSE]
                ELSE [r.forced EXCEPT ![s] = FALSE, ![g] = TRUE]
  /\ q.replaying = IF busy THEN r.replaying ELSE r.replaying \ {g}
  /\ q.holds = r.holds /\ q.ends = r.ends /\ q.attempt = r.attempt
  /\ q.outcome = r.outcome /\ q.routed = r.routed /\ q.asked = r.asked

LEMMA AskFields ==
  ASSUME NEW w, NEW r \in Record(w), NEW s \in DOMAIN w, w[s].guard \in DOMAIN w
  PROVE  AsksAs(w, r, AskGuard(w, r, s), s)
BY DEF AskGuard, Record, Statuses, AsksAs

\* The cases not chosen.
PrunesAs(w, r, q, A) ==
  /\ q \in Record(w)
  /\ q.status = [s \in DOMAIN w |->
                   IF s \in A /\ r.status[s] = "pending" THEN "pruned" ELSE r.status[s]]
  /\ q.ends = [s \in DOMAIN w |-> IF s \in A /\ r.status[s] = "pending"
                                 THEN r.ends[s] \union {"pruned"} ELSE r.ends[s]]
  /\ q.forced = r.forced /\ q.holds = r.holds /\ q.attempt = r.attempt
  /\ q.outcome = r.outcome /\ q.routed = r.routed /\ q.asked = r.asked
  /\ q.replaying = r.replaying

LEMMA PrunedFields ==
  ASSUME NEW w, NEW r \in Record(w), NEW A \in SUBSET DOMAIN w
  PROVE  PrunesAs(w, r, Pruned(r, A), A)
BY DEF Pruned, Record, Statuses, PrunesAs

---------------------------------------------------------------------------
(* What no operation undoes.                                               *)

\* q comes after r: attempts, edges taken and ends are never taken back, and a
\* step still to be replayed stays pruned if it was.
Follows(w, r, q) ==
  /\ \A s \in DOMAIN w : r.attempt[s] <= q.attempt[s] /\ r.ends[s] \subseteq q.ends[s]
  /\ r.routed \subseteq q.routed /\ q.replaying \subseteq r.replaying
  /\ \A s \in q.replaying : r.status[s] = "pruned" => q.status[s] = "pruned"

\* Nothing was pruned between r and q.
NonePruned(w, r, q) ==
  \A s \in DOMAIN w : q.status[s] = "pruned" => r.status[s] = "pruned"

LEMMA FollowsRefl ==
  ASSUME NEW w, NEW r \in Record(w)
  PROVE  Follows(w, r, r) /\ NonePruned(w, r, r)
BY DEF Follows, NonePruned, Record

LEMMA FollowsTrans ==
  ASSUME NEW w, NEW r \in Record(w), NEW q \in Record(w), NEW p \in Record(w),
         Follows(w, r, q), Follows(w, q, p)
  PROVE  /\ Follows(w, r, p)
         /\ NonePruned(w, r, q) /\ NonePruned(w, q, p) => NonePruned(w, r, p)
<1>1. \A s \in DOMAIN w : /\ r.attempt[s] \in Nat /\ q.attempt[s] \in Nat /\ p.attempt[s] \in Nat
                          /\ s \in p.replaying => s \in q.replaying
  BY DEF Follows, Record
<1>2. p.replaying \subseteq DOMAIN w
  BY DEF Record
<1>3. \A s \in DOMAIN w : r.attempt[s] <= p.attempt[s] /\ r.ends[s] \subseteq p.ends[s]
  BY <1>1 DEF Follows
<1>4. /\ r.routed \subseteq p.routed /\ p.replaying \subseteq r.replaying
      /\ \A s \in p.replaying : r.status[s] = "pruned" => p.status[s] = "pruned"
  BY <1>1, <1>2 DEF Follows
<1> QED BY <1>3, <1>4 DEF Follows, NonePruned

\* A step that was not pruned ends.
LEMMA FollowsEnd ==
  ASSUME NEW w, NEW r \in Record(w), NEW s \in DOMAIN w, NEW st \in Statuses,
         NEW q, EndsAs(w, r, q, s, st), r.status[s] # "pruned" \/ s \notin r.replaying
  PROVE  Follows(w, r, q) /\ (st # "pruned" => NonePruned(w, r, q))
BY DEF EndsAs, Follows, NonePruned, Record

LEMMA FollowsBegin ==
  ASSUME NEW w, NEW r \in Record(w), NEW s \in DOMAIN w, NEW q, BeginsAs(w, r, q, s)
  PROVE  Follows(w, r, q) /\ NonePruned(w, r, q)
BY DEF BeginsAs, Follows, NonePruned, Record

LEMMA FollowsStatus ==
  ASSUME NEW w, NEW r \in Record(w), NEW s \in DOMAIN w, NEW st \in Statuses \ {"pruned"},
         NEW q, SetsTo(w, r, q, s, st), r.status[s] # "pruned" \/ s \notin r.replaying
  PROVE  Follows(w, r, q) /\ NonePruned(w, r, q)
BY DEF SetsTo, Follows, NonePruned, Record

LEMMA FollowsFinish ==
  ASSUME NEW w, NEW r \in Record(w), NEW o \in Outcomes, NEW q, FinishesAs(w, r, q, o)
  PROVE  Follows(w, r, q) /\ NonePruned(w, r, q)
BY DEF FinishesAs, Follows, NonePruned, Record, Terminal

LEMMA FollowsRoute ==
  ASSUME NEW w, NEW r \in Record(w), NEW t \in DOMAIN w, NEW q, RoutesAs(w, r, q, t)
  PROVE  Follows(w, r, q) /\ NonePruned(w, r, q)
BY DEF RoutesAs, Follows, NonePruned, Record

LEMMA FollowsAsk ==
  ASSUME NEW w, NEW r \in Record(w), NEW s \in DOMAIN w, w[s].guard \in DOMAIN w,
         NEW q, AsksAs(w, r, q, s)
  PROVE  Follows(w, r, q) /\ NonePruned(w, r, q)
BY DEF AsksAs, Follows, NonePruned, Record

LEMMA FollowsPruned ==
  ASSUME NEW w, NEW r \in Record(w), NEW A \in SUBSET DOMAIN w, NEW q, PrunesAs(w, r, q, A)
  PROVE  Follows(w, r, q)
BY DEF PrunesAs, Follows, Record

---------------------------------------------------------------------------
(* Each operation keeps a record sound.                                    *)

\* A step ends; a guard's answer is another matter.
LEMMA SoundEnd ==
  ASSUME NEW w \in Workflows, NEW r \in Record(w), Sound(w, r), NEW s \in DOMAIN w,
         NEW st \in Statuses \ {"cancelled"}, Terminal(st), st = "done" => w[s].kind # "guard",
         NEW q, EndsAs(w, r, q, s, st)
  PROVE  Sound(w, q)
<1>0. \A t \in DOMAIN w : w[t].guard # None => WellGuarded(w, t)
  BY Loaded
<1>1. AskedAbout(w, q)
  BY <1>0 DEF EndsAs, Sound, AskedAbout, WellGuarded, Record
<1>2. MarkFromEdge(w, q) /\ MarkStays(w, q)
  BY DEF EndsAs, Sound, MarkFromEdge, MarkStays
<1>3. EndsKnown(w, q)
  BY DEF EndsAs, Sound, EndsKnown, Record
<1>4. StartsOver(w, q) /\ CancelledAtEnd(w, q)
  BY DEF EndsAs, Sound, StartsOver, CancelledAtEnd, Record, Over
<1> QED BY <1>1, <1>2, <1>3, <1>4 DEF Sound

\* A step that is pending starts.
LEMMA SoundBegin ==
  ASSUME NEW w \in Workflows, NEW r \in Record(w), Sound(w, r), NEW s \in DOMAIN w,
         r.status[s] = "pending", NEW q, BeginsAs(w, r, q, s)
  PROVE  Sound(w, q)
BY DEF BeginsAs, Sound, AskedAbout, MarkFromEdge, MarkStays, EndsKnown, StartsOver,
   CancelledAtEnd, Terminal, Record, Over

\* A step waits, or is pending again.
LEMMA SoundStatus ==
  ASSUME NEW w \in Workflows, NEW r \in Record(w), Sound(w, r), NEW s \in DOMAIN w,
         NEW st \in {"pending", "suspended"}, w[s].kind = "start" => ~Terminal(r.status[s]),
         NEW q, SetsTo(w, r, q, s, st)
  PROVE  Sound(w, q)
BY DEF SetsTo, Sound, AskedAbout, MarkFromEdge, MarkStays, EndsKnown, StartsOver,
   CancelledAtEnd, Terminal, Record, Over

LEMMA SoundFinish ==
  ASSUME NEW w \in Workflows, NEW r \in Record(w), Sound(w, r), NEW o \in Outcomes \ {"live"},
         NEW q, FinishesAs(w, r, q, o)
  PROVE  Sound(w, q)
<1>0. \A t \in DOMAIN w : w[t].guard # None => WellGuarded(w, t)
  BY Loaded
<1>1. \A s \in DOMAIN w : q.status[s] = r.status[s] \/ q.status[s] = "cancelled"
  BY DEF FinishesAs
<1>2. AskedAbout(w, q)
  BY <1>0, <1>1 DEF FinishesAs, Sound, AskedAbout, WellGuarded
<1>3. MarkFromEdge(w, q) /\ MarkStays(w, q)
  BY DEF FinishesAs, Sound, MarkFromEdge, MarkStays
<1>4. EndsKnown(w, q) /\ StartsOver(w, q)
  BY <1>1 DEF FinishesAs, Sound, EndsKnown, StartsOver, Terminal
<1>5. CancelledAtEnd(w, q)
  BY DEF FinishesAs, CancelledAtEnd, Over
<1> QED BY <1>2, <1>3, <1>4, <1>5 DEF Sound

LEMMA SoundRoute ==
  ASSUME NEW w \in Workflows, NEW r \in Record(w), Sound(w, r), NEW t \in DOMAIN w,
         NEW q, RoutesAs(w, r, q, t)
  PROVE  Sound(w, q)
<1>0. \A x \in DOMAIN w : w[x].guard # None => WellGuarded(w, x)
  BY Loaded
<1>1. AskedAbout(w, q)
  BY <1>0 DEF RoutesAs, Sound, AskedAbout, WellGuarded, Record
<1>2. MarkFromEdge(w, q) /\ MarkStays(w, q)
  BY DEF RoutesAs, Sound, MarkFromEdge, MarkStays, Record
<1>3. EndsKnown(w, q)
  BY DEF RoutesAs, Sound, EndsKnown, Record
<1>4. StartsOver(w, q) /\ CancelledAtEnd(w, q)
  BY DEF RoutesAs, Sound, StartsOver, CancelledAtEnd, Record, Over
<1> QED BY <1>1, <1>2, <1>3, <1>4 DEF Sound

\* A guard is nobody's guarded step, and has one step.
LEMMA GuardOf ==
  ASSUME NEW w \in Workflows, NEW s \in DOMAIN w, w[s].guard # None
  PROVE  /\ WellGuarded(w, s) /\ Guarding(w, s) = {} /\ s # w[s].guard /\ w[s].kind # "guard"
         /\ \A t \in DOMAIN w : w[t].guard = w[s].guard => t = s
<1>1. WellGuarded(w, s) /\ \A t \in DOMAIN w : w[t].guard # None => WellGuarded(w, t)
  BY Loaded
<1>2. Guarding(w, s) = {}
  <2>1. s # None
    BY Loaded DEF Plainly
  <2>2. \A t \in DOMAIN w : w[t].guard = s => w[s].guard = None
    BY <1>1, <2>1 DEF WellGuarded
  <2> QED BY <2>2 DEF Guarding
<1>3. s # w[s].guard /\ \A t \in DOMAIN w : w[t].guard = w[s].guard => t = s
  BY <1>1 DEF WellGuarded, Guarding
<1>4. w[s].kind # "guard"
  BY <1>2, Loaded DEF Plainly
<1> QED BY <1>1, <1>2, <1>3, <1>4

\* Asking changes the step's mark, and its guard.
LEMMA AskElsewhere ==
  ASSUME NEW w \in Workflows, NEW r \in Record(w), NEW s \in DOMAIN w, w[s].guard # None,
         NEW q, AsksAs(w, r, q, s)
  PROVE  LET g == w[s].guard IN
         /\ \A t \in DOMAIN w \ {s, g} : q.forced[t] = r.forced[t]
         /\ \A t \in DOMAIN w \ {g} : q.status[t] = r.status[t]
         /\ ~q.forced[s] /\ q.status[g] \in {"running", "suspended", "pending"}
         /\ q.forced[g] = r.forced[g] \/ q.forced[g]
         /\ r.status[g] \notin {"running", "suspended"} => q.status[g] = "pending" /\ q.forced[g]
<1> DEFINE g == w[s].guard
<1>1. g \in DOMAIN w /\ s # g
  BY GuardOf DEF WellGuarded
<1>2. /\ r.status \in [DOMAIN w -> Statuses] /\ r.forced \in [DOMAIN w -> BOOLEAN]
      /\ q.status = IF r.status[g] \in {"running", "suspended"} THEN r.status
                    ELSE [r.status EXCEPT ![g] = "pending"]
      /\ q.forced = IF r.status[g] \in {"running", "suspended"}
                    THEN [r.forced EXCEPT ![s] = FALSE]
                    ELSE [r.forced EXCEPT ![s] = FALSE, ![g] = TRUE]
  BY DEF AsksAs, Record
<1> HIDE DEF g
<1>3. CASE r.status[g] \in {"running", "suspended"}
  BY <1>1, <1>2, <1>3 DEF g
<1>4. CASE r.status[g] \notin {"running", "suspended"}
  <2>1. /\ q.status = [r.status EXCEPT ![g] = "pending"]
        /\ q.forced = [r.forced EXCEPT ![s] = FALSE, ![g] = TRUE]
    BY <1>2, <1>4
  <2> QED BY <2>1, <1>1, <1>2 DEF g
<1> QED BY <1>3, <1>4

\* The mark moves from a step to its guard.
LEMMA SoundAsk ==
  ASSUME NEW w \in Workflows, NEW r \in Record(w), Sound(w, r), NEW s \in DOMAIN w,
         w[s].guard # None, r.forced[s], NEW q, AsksAs(w, r, q, s)
  PROVE  Sound(w, q)
<1> DEFINE g == w[s].guard
<1>1. /\ g \in DOMAIN w /\ Guarding(w, g) = {s} /\ w[g].guard = None /\ w[g].kind = "guard"
      /\ w[s].kind # "start" /\ Guarding(w, s) = {} /\ s # g
      /\ \A t \in DOMAIN w : w[t].guard = g => t = s
  BY GuardOf DEF WellGuarded
<1>2. s \in r.routed
  BY <1>1 DEF Sound, MarkFromEdge
<1>3. /\ \A t \in DOMAIN w \ {s, g} : q.forced[t] = r.forced[t]
      /\ \A t \in DOMAIN w \ {g} : q.status[t] = r.status[t]
      /\ ~q.forced[s] /\ q.status[g] \in {"running", "suspended", "pending"}
      /\ q.forced[g] = r.forced[g] \/ q.forced[g]
  BY <1>1, AskElsewhere
<1>4. q.ends = r.ends /\ q.outcome = r.outcome /\ q.routed = r.routed /\ q.asked = r.asked
  BY DEF AsksAs
<1>0. \A t \in DOMAIN w : w[t].guard # None => w[t].guard \in DOMAIN w
  BY Loaded DEF WellGuarded
<1> HIDE DEF g
<1>5. AskedAbout(w, q)
  <2> SUFFICES ASSUME NEW t \in DOMAIN w, w[t].guard # None, ~q.forced[t],
                      q.status[w[t].guard] = "done"
               PROVE  t \in q.asked
    BY DEF AskedAbout
  <2>1. w[t].guard # g
    BY <1>3
  <2>2. t # s /\ t # g
    BY <2>1, <1>1 DEF g
  <2> QED BY <2>1, <2>2, <1>0, <1>3, <1>4 DEF Sound, AskedAbout
<1>6. MarkFromEdge(w, q)
  BY <1>1, <1>2, <1>3, <1>4 DEF Sound, MarkFromEdge
<1>7. MarkStays(w, q)
  <2>1. w[s].guard # None /\ q.routed \subseteq DOMAIN w
    BY <1>4 DEF Record
  <2> QED BY <2>1, <1>3, <1>4 DEF Sound, MarkStays
<1>8. EndsKnown(w, q)
  BY <1>3, <1>4 DEF Sound, EndsKnown
<1>9. StartsOver(w, q) /\ CancelledAtEnd(w, q)
  BY <1>1, <1>3, <1>4 DEF Sound, StartsOver, CancelledAtEnd, Over
<1> QED BY <1>5, <1>6, <1>7, <1>8, <1>9 DEF Sound

LEMMA SoundPruned ==
  ASSUME NEW w \in Workflows, NEW r \in Record(w), Sound(w, r), NEW A \in SUBSET DOMAIN w,
         NEW q, PrunesAs(w, r, q, A)
  PROVE  Sound(w, q)
<1>0. \A x \in DOMAIN w : w[x].guard # None => WellGuarded(w, x)
  BY Loaded
<1>1. \A s \in DOMAIN w : \/ q.status[s] = r.status[s] /\ q.ends[s] = r.ends[s]
                          \/ q.status[s] = "pruned" /\ q.ends[s] = r.ends[s] \union {"pruned"}
  BY DEF PrunesAs
<1>2. AskedAbout(w, q)
  BY <1>0, <1>1 DEF PrunesAs, Sound, AskedAbout, WellGuarded
<1>3. MarkFromEdge(w, q) /\ MarkStays(w, q)
  BY DEF PrunesAs, Sound, MarkFromEdge, MarkStays
<1>4. EndsKnown(w, q)
  BY <1>1 DEF Sound, EndsKnown
<1>5. StartsOver(w, q) /\ CancelledAtEnd(w, q)
  BY <1>1 DEF PrunesAs, Sound, StartsOver, CancelledAtEnd, Over, Terminal
<1> QED BY <1>2, <1>3, <1>4, <1>5 DEF Sound

---------------------------------------------------------------------------
(* Recursive functions.                                                    *)

\* Induction over 0 .. n.
LEMMA Induct ==
  ASSUME NEW n \in Nat, NEW K, 0 \in K, \A i \in 0 .. n : i \in K /\ i < n => i + 1 \in K
  PROVE  0 .. n \subseteq K
<1> DEFINE B == (0 .. n) \ K
<1> SUFFICES ASSUME B # {} PROVE FALSE
  OBVIOUS
<1>1. B \subseteq Nat
  OBVIOUS
<1>2. PICK x \in B : \A y \in B : ~(<<y, x>> \in OpToRel(<, Nat))
  BY <1>1, NatLessThanWellFounded, WFMin
<1>3. \A y \in B : ~(y < x)
  <2> SUFFICES ASSUME NEW y \in B, y < x PROVE FALSE
    OBVIOUS
  <2>1. <<y, x>> \in OpToRel(<, Nat)
    BY <1>1 DEF OpToRel
  <2> QED BY <2>1, <1>2
<1>4. x \in 0 .. n /\ x # 0
  OBVIOUS
<1>5. x - 1 \in 0 .. n /\ x - 1 < x /\ x - 1 < n /\ (x - 1) + 1 = x
  BY <1>4
<1>6. x - 1 \in K
  BY <1>3, <1>5
<1> QED BY <1>5, <1>6

\* f is computed step by step: from a, then each element from the one before.
Computes(f, n, T, a, F) ==
  f \in [0 .. n -> T] /\ f[0] = a /\ \A i \in 1 .. n : f[i] = F[i][f[i - 1]]

\* Such a function exists.
LEMMA Iteration ==
  ASSUME NEW n \in Nat, NEW T, NEW a \in T, NEW F \in [0 .. n -> [T -> T]]
  PROVE  \E f : Computes(f, n, T, a, F)
<1> DEFINE K == {k \in 0 .. n : \E f : Computes(f, k, T, a, F)}
<1>1. 0 \in K
  <2>1. Computes([i \in 0 .. 0 |-> a], 0, T, a, F)
    BY DEF Computes
  <2> QED BY <2>1
<1>2. \A k \in 0 .. n : k \in K /\ k < n => k + 1 \in K
  <2> SUFFICES ASSUME NEW k \in 0 .. n, k \in K, k < n PROVE k + 1 \in K
    OBVIOUS
  <2>1. PICK f : Computes(f, k, T, a, F)
    OBVIOUS
  <2> DEFINE h == [i \in 0 .. k + 1 |-> IF i <= k THEN f[i] ELSE F[k + 1][f[k]]]
  <2>2. F[k + 1][f[k]] \in T
    BY <2>1 DEF Computes
  <2>3. h \in [0 .. k + 1 -> T] /\ h[0] = a
    BY <2>1, <2>2 DEF Computes
  <2>4. \A i \in 1 .. k + 1 : h[i] = F[i][h[i - 1]]
    <3> TAKE i \in 1 .. k + 1
    <3>1. CASE i <= k
      BY <3>1, <2>1 DEF Computes
    <3>2. CASE i = k + 1
      BY <3>2, <2>1 DEF Computes
    <3> QED BY <3>1, <3>2
  <2>5. k + 1 \in 0 .. n
    OBVIOUS
  <2> HIDE DEF h
  <2>6. Computes(h, k + 1, T, a, F)
    BY <2>3, <2>4 DEF Computes
  <2> QED BY <2>5, <2>6
<1>3. n \in K
  <2> HIDE DEF K
  <2>1. 0 .. n \subseteq K
    BY <1>1, <1>2, Induct
  <2> QED BY <2>1
<1> QED BY <1>3

---------------------------------------------------------------------------
(* Answers and replays.                                                    *)

\* A guard answers.
AnswersAs(w, r, q, g) ==
  /\ q \in Record(w)
  /\ q.status = [r.status EXCEPT ![g] = "done"]
  /\ q.ends = [r.ends EXCEPT ![g] = @ \union {"done"}]
  /\ \E h \in BOOLEAN : q.holds = [r.holds EXCEPT ![g] = h]
  /\ q.asked = r.asked \union Guarding(w, g)
  /\ q.forced = r.forced /\ q.attempt = r.attempt
  /\ q.outcome = r.outcome /\ q.routed = r.routed /\ q.replaying = r.replaying

LEMMA AnswerFields ==
  ASSUME NEW w, NEW r \in Record(w), NEW g \in DOMAIN w, NEW h \in BOOLEAN
  PROVE  AnswersAs(w, r, [End(r, g, "done") EXCEPT !.holds[g] = h,
                                                   !.asked = @ \union Guarding(w, g)], g)
<1> DEFINE e == End(r, g, "done")
           q == [e EXCEPT !.holds[g] = h, !.asked = @ \union Guarding(w, g)]
<1>1. EndsAs(w, r, e, g, "done")
  BY EndFields DEF Statuses
<1> HIDE DEF e
<1>2. Guarding(w, g) \in SUBSET DOMAIN w
  BY DEF Guarding
<1>3. /\ q \in Record(w) /\ q.holds = [e.holds EXCEPT ![g] = h]
      /\ q.asked = e.asked \union Guarding(w, g)
      /\ q.status = e.status /\ q.ends = e.ends /\ q.forced = e.forced /\ q.attempt = e.attempt
      /\ q.outcome = e.outcome /\ q.routed = e.routed /\ q.replaying = e.replaying
  BY <1>1, <1>2 DEF EndsAs, Record
<1> HIDE DEF q
<1>4. AnswersAs(w, r, q, g)
  BY <1>1, <1>3 DEF AnswersAs, EndsAs
<1> QED BY <1>4 DEF q, e

LEMMA SoundAnswer ==
  ASSUME NEW w \in Workflows, NEW r \in Record(w), Sound(w, r), NEW g \in DOMAIN w,
         NEW q, AnswersAs(w, r, q, g)
  PROVE  Sound(w, q)
<1>0. \A t \in DOMAIN w : w[t].guard # None => w[t].guard \in DOMAIN w
  BY Loaded DEF WellGuarded
<1>1. AskedAbout(w, q)
  <2> SUFFICES ASSUME NEW t \in DOMAIN w, w[t].guard # None, ~q.forced[t],
                      q.status[w[t].guard] = "done"
               PROVE  t \in q.asked
    BY DEF AskedAbout
  <2>1. CASE w[t].guard = g
    BY <2>1 DEF AnswersAs, Guarding
  <2>2. CASE w[t].guard # g
    BY <2>2, <1>0 DEF AnswersAs, Sound, AskedAbout, Record
  <2> QED BY <2>1, <2>2
<1>2. MarkFromEdge(w, q) /\ MarkStays(w, q)
  BY DEF AnswersAs, Sound, MarkFromEdge, MarkStays
<1>3. EndsKnown(w, q)
  BY DEF AnswersAs, Sound, EndsKnown, Record
<1>4. StartsOver(w, q) /\ CancelledAtEnd(w, q)
  BY DEF AnswersAs, Sound, StartsOver, CancelledAtEnd, Record, Over, Terminal
<1> QED BY <1>1, <1>2, <1>3, <1>4 DEF Sound

\* What a restart makes of the steps it finds running.
ReplaysAs(w, r, q) ==
  /\ q \in Record(w)
  /\ \A s \in DOMAIN w : r.status[s] # "running" =>
       q.status[s] = r.status[s] /\ q.ends[s] = r.ends[s]
  /\ \A s \in DOMAIN w : r.status[s] = "running" =>
       /\ q.status[s] \in {"pending", "skipped", "failed"}
       /\ q.ends[s] = r.ends[s] \union ({q.status[s]} \ {"pending"})
  /\ \A s \in q.replaying : r.status[s] = "running"
  /\ q.forced = r.forced /\ q.holds = r.holds /\ q.attempt = r.attempt
  /\ q.outcome = r.outcome /\ q.routed = r.routed /\ q.asked = r.asked

\* A definition has finitely many steps.
LEMMA FiniteSteps ==
  ASSUME NEW w \in Workflows
  PROVE  IsFiniteSet(DOMAIN w)
<1>1. Ids \in Seq(Range(Ids)) /\ DOMAIN w \subseteq Range(Ids)
  BY GraphAssumption
<1>2. Len(Ids) \in Nat /\ DOMAIN Ids = 1 .. Len(Ids) /\ Ids \in [1 .. Len(Ids) -> Range(Ids)]
  BY <1>1, LenProperties
<1>3. Ids \in Surjection(1 .. Len(Ids), Range(Ids))
  BY <1>2 DEF Surjection, Range
<1>4. IsFiniteSet(1 .. Len(Ids))
  BY <1>2, FS_Interval
<1>5. IsFiniteSet(Range(Ids))
  BY <1>3, <1>4, FS_Surjection
<1> QED BY <1>1, <1>5, FS_Subset

LEMMA ReplayFields ==
  ASSUME NEW w \in Workflows, NEW r \in Record(w)
  PROVE  ReplaysAs(w, r, Replayed(w, r))
<1> DEFINE left == {s \in DOMAIN w : r.status[s] = "running"}
           how == [s \in left |-> CASE w[s].onReplay = "retry" -> "pending"
                                    [] w[s].onReplay = "skip" -> "skipped"
                                    [] w[s].onReplay = "fail" -> "failed"]
           ended == {s \in left : Terminal(how[s])}
           status == [s \in DOMAIN w |-> IF s \in left THEN how[s] ELSE r.status[s]]
           ends == [s \in DOMAIN w |-> IF s \in ended THEN r.ends[s] \union {how[s]} ELSE r.ends[s]]
           q == [r EXCEPT !.status = status, !.ends = ends,
                          !.count = @ + Cardinality(ended), !.replaying = left \ ended]
<1>1. \A s \in left : how[s] \in {"pending", "skipped", "failed"}
  <2> TAKE s \in left
  <2>1. w[s].onReplay \in {"retry", "skip", "fail"}
    BY Loaded DEF Plainly
  <2> QED BY <2>1
<1>2. \A s \in left : s \in ended <=> how[s] # "pending"
  BY <1>1 DEF Terminal
<1>3. Cardinality(ended) \in Nat
  BY FiniteSteps, FS_Subset, FS_CardinalityType
<1>4. Replayed(w, r) = q
  BY DEF Replayed, Record
<1> HIDE DEF how, ended
<1>5. status \in [DOMAIN w -> Statuses] /\ ends \in [DOMAIN w -> SUBSET Statuses]
  BY <1>1 DEF Record, Statuses, ended
<1>6. left \ ended \in SUBSET DOMAIN w /\ r.count + Cardinality(ended) \in Nat
  BY <1>3 DEF Record
<1>7. /\ \A s \in DOMAIN w : r.status[s] # "running" =>
           status[s] = r.status[s] /\ ends[s] = r.ends[s]
      /\ \A s \in DOMAIN w : r.status[s] = "running" =>
           /\ status[s] \in {"pending", "skipped", "failed"}
           /\ ends[s] = r.ends[s] \union ({status[s]} \ {"pending"})
      /\ \A s \in left \ ended : r.status[s] = "running"
  <2>1. ended \subseteq left
    BY DEF ended
  <2> QED BY <1>1, <1>2, <2>1
<1> HIDE DEF left, status, ends
<1>8. /\ q \in Record(w) /\ q.status = status /\ q.ends = ends /\ q.replaying = left \ ended
      /\ q.forced = r.forced /\ q.holds = r.holds /\ q.attempt = r.attempt
      /\ q.outcome = r.outcome /\ q.routed = r.routed /\ q.asked = r.asked
  BY <1>5, <1>6 DEF Record
<1> HIDE DEF q
<1>9. ReplaysAs(w, r, q)
  BY <1>7, <1>8 DEF ReplaysAs
<1> QED BY <1>4, <1>9

LEMMA SoundReplay ==
  ASSUME NEW w \in Workflows, NEW r \in Record(w), Sound(w, r), NEW q, ReplaysAs(w, r, q)
  PROVE  Sound(w, q) /\ (SwitchAtOnce(w, r) => SwitchAtOnce(w, q))
<1>0. \A t \in DOMAIN w : w[t].guard # None => w[t].guard \in DOMAIN w
  BY Loaded DEF WellGuarded
<1>1. AskedAbout(w, q)
  BY <1>0 DEF ReplaysAs, Sound, AskedAbout
<1>2. MarkFromEdge(w, q) /\ MarkStays(w, q)
  BY DEF ReplaysAs, Sound, MarkFromEdge, MarkStays
<1>3. EndsKnown(w, q)
  BY DEF ReplaysAs, Sound, EndsKnown
<1>4. StartsOver(w, q) /\ CancelledAtEnd(w, q)
  BY DEF ReplaysAs, Sound, StartsOver, CancelledAtEnd, Over, Terminal
<1>5. SwitchAtOnce(w, r) => SwitchAtOnce(w, q)
  BY DEF ReplaysAs, SwitchAtOnce
<1> QED BY <1>1, <1>2, <1>3, <1>4, <1>5 DEF Sound

---------------------------------------------------------------------------
(* Each operation leaves the rest of a ready list sound.                   *)

\* What is enough: the steps of the list keep their status, their guards keep
\* their answers.
LEMMA ReadyKept ==
  ASSUME NEW w \in Workflows, NEW r \in Record(w), NEW q \in Record(w), NEW Q \in SUBSET DOMAIN w,
         ReadySound(w, r, Q), Follows(w, r, q),
         \A x \in Q : q.status[x] \in {"pending", "pruned"},
         GuardsPrivate(w) => \A x \in Q : Guarded(w, q, x)
  PROVE  ReadySound(w, q, Q)
<1>1. \A x \in Q : w[x].deps \subseteq DOMAIN w
  BY Loaded DEF Plainly
<1>2. \A x \in Q : Early(w, r, x) => Early(w, q, x)
  <2> SUFFICES ASSUME NEW x \in Q, Early(w, r, x) PROVE Early(w, q, x)
    OBVIOUS
  <2>1. r.routed \subseteq q.routed /\ \A d \in w[x].deps : r.ends[d] \subseteq q.ends[d]
    BY <1>1 DEF Follows
  <2>2. CASE ({x} \union Guarding(w, x)) \intersect r.routed # {}
    BY <2>1, <2>2 DEF Early
  <2>3. CASE /\ \A d \in w[x].deps : r.ends[d] # {}
             /\ \E d \in w[x].deps : r.ends[d] \intersect {"done", "skipped"} # {}
    BY <2>1, <2>3 DEF Early
  <2> QED BY <2>2, <2>3 DEF Early
<1> QED BY <1>2 DEF ReadySound

\* A guard that has answered yes to a step of the list has ended.
LEMMA GuardDone ==
  ASSUME NEW w \in Workflows, NEW r, NEW Q \in SUBSET DOMAIN w, ReadySound(w, r, Q),
         GuardsPrivate(w), NEW x \in Q, w[x].guard # None
  PROVE  /\ w[x].guard \in DOMAIN w /\ r.status[w[x].guard] = "done" /\ r.holds[w[x].guard]
         /\ x \in r.asked /\ w[w[x].guard].kind = "guard"
<1>1. w[x].guard \in DOMAIN w /\ w[w[x].guard].kind = "guard"
  BY Loaded DEF WellGuarded
<1> QED BY <1>1 DEF ReadySound, Guarded, GuardHolds

LEMMA ReadyEnd ==
  ASSUME NEW w \in Workflows, NEW r \in Record(w), NEW Q \in SUBSET DOMAIN w,
         ReadySound(w, r, Q), NEW s \in DOMAIN w, s \notin Q, r.status[s] # "done",
         NEW st \in Statuses, NEW q, EndsAs(w, r, q, s, st),
         r.status[s] # "pruned" \/ s \notin r.replaying
  PROVE  ReadySound(w, q, Q)
<1>1. Follows(w, r, q) /\ q \in Record(w)
  BY FollowsEnd DEF EndsAs
<1>2. \A x \in Q : q.status[x] \in {"pending", "pruned"}
  BY DEF EndsAs, Record, ReadySound
<1>3. ASSUME GuardsPrivate(w), NEW x \in Q PROVE Guarded(w, q, x)
  <2>1. w[x].guard # None => s # w[x].guard
    BY <1>3, GuardDone
  <2> QED BY <2>1, <1>3, GuardDone DEF EndsAs, Record, Guarded, GuardHolds
<1> QED BY <1>1, <1>2, <1>3, ReadyKept

LEMMA ReadyBegin ==
  ASSUME NEW w \in Workflows, NEW r \in Record(w), NEW Q \in SUBSET DOMAIN w,
         ReadySound(w, r, Q), NEW s \in DOMAIN w, s \notin Q, r.status[s] # "done",
         NEW q, BeginsAs(w, r, q, s)
  PROVE  ReadySound(w, q, Q)
<1>1. Follows(w, r, q) /\ q \in Record(w)
  BY FollowsBegin DEF BeginsAs
<1>2. \A x \in Q : q.status[x] \in {"pending", "pruned"}
  BY DEF BeginsAs, Record, ReadySound
<1>3. ASSUME GuardsPrivate(w), NEW x \in Q PROVE Guarded(w, q, x)
  <2>1. w[x].guard # None => s # w[x].guard
    BY <1>3, GuardDone
  <2> QED BY <2>1, <1>3, GuardDone DEF BeginsAs, Record, Guarded, GuardHolds
<1> QED BY <1>1, <1>2, <1>3, ReadyKept

LEMMA ReadyStatus ==
  ASSUME NEW w \in Workflows, NEW r \in Record(w), NEW Q \in SUBSET DOMAIN w,
         ReadySound(w, r, Q), NEW s \in DOMAIN w, s \notin Q, r.status[s] \notin {"done", "pruned"},
         NEW st \in Statuses \ {"pruned"}, NEW q, SetsTo(w, r, q, s, st)
  PROVE  ReadySound(w, q, Q)
<1>1. Follows(w, r, q) /\ q \in Record(w)
  BY FollowsStatus DEF SetsTo
<1>2. \A x \in Q : q.status[x] \in {"pending", "pruned"}
  BY DEF SetsTo, Record, ReadySound
<1>3. ASSUME GuardsPrivate(w), NEW x \in Q PROVE Guarded(w, q, x)
  <2>1. w[x].guard # None => s # w[x].guard
    BY <1>3, GuardDone
  <2> QED BY <2>1, <1>3, GuardDone DEF SetsTo, Record, Guarded, GuardHolds
<1> QED BY <1>1, <1>2, <1>3, ReadyKept

\* An edge from y may lead to a step of the list.
LEMMA ReadyRoute ==
  ASSUME NEW w \in Workflows, NEW r \in Record(w), NEW Q \in SUBSET DOMAIN w,
         ReadySound(w, r, Q), NEW y \in DOMAIN w, NEW t \in DOMAIN w, RoutesTo(w, y, t),
         NEW q, RoutesAs(w, r, q, t)
  PROVE  ReadySound(w, q, Q)
<1>1. Follows(w, r, q) /\ q \in Record(w)
  BY FollowsRoute DEF RoutesAs
<1>2. \A x \in Q : q.status[x] \in {"pending", "pruned"}
  BY DEF RoutesAs, Record, ReadySound
<1>3. ASSUME GuardsPrivate(w), NEW x \in Q PROVE Guarded(w, q, x)
  <2> SUFFICES ASSUME w[x].guard # None PROVE GuardHolds(w, q, x) /\ x \in q.asked
    BY DEF Guarded
  <2>1. /\ w[x].guard \in DOMAIN w /\ r.status[w[x].guard] = "done" /\ r.holds[w[x].guard]
        /\ x \in r.asked /\ w[w[x].guard].kind = "guard"
    BY <1>3, GuardDone
  <2>2. t # w[x].guard
    BY <1>3, <2>1 DEF GuardsPrivate
  <2>3. GuardHolds(w, q, x)
    BY <2>1, <2>2 DEF RoutesAs, Record, GuardHolds
  <2>4. r.status[x] \in {"pending", "pruned"}
    BY DEF ReadySound
  <2> QED BY <2>1, <2>3, <2>4 DEF RoutesAs
<1> QED BY <1>1, <1>2, <1>3, ReadyKept

LEMMA ReadyPruned ==
  ASSUME NEW w \in Workflows, NEW r \in Record(w), NEW Q \in SUBSET DOMAIN w,
         ReadySound(w, r, Q), NEW A \in SUBSET DOMAIN w, NEW q, PrunesAs(w, r, q, A)
  PROVE  ReadySound(w, q, Q)
<1>1. Follows(w, r, q) /\ q \in Record(w)
  BY FollowsPruned DEF PrunesAs
<1>2. \A x \in Q : q.status[x] \in {"pending", "pruned"}
  BY DEF PrunesAs, Record, ReadySound
<1>3. ASSUME GuardsPrivate(w), NEW x \in Q PROVE Guarded(w, q, x)
  BY <1>3, GuardDone DEF PrunesAs, Guarded, GuardHolds
<1> QED BY <1>1, <1>2, <1>3, ReadyKept

\* The guard that is asked is of no step in the list.
LEMMA ReadyAsk ==
  ASSUME NEW w \in Workflows, NEW r \in Record(w), NEW Q \in SUBSET DOMAIN w,
         ReadySound(w, r, Q), NEW s \in DOMAIN w, s \notin Q, w[s].guard # None,
         NEW q, AsksAs(w, r, q, s)
  PROVE  ReadySound(w, q, Q)
<1> DEFINE g == w[s].guard
<1>0. g \in DOMAIN w /\ \A t \in DOMAIN w : w[t].guard = g => t = s
  BY GuardOf DEF WellGuarded
<1>1. Follows(w, r, q) /\ q \in Record(w)
  BY <1>0, FollowsAsk DEF AsksAs
<1>2. /\ \A t \in DOMAIN w \ {g} : q.status[t] = r.status[t]
      /\ q.status[g] = r.status[g] \/ q.status[g] = "pending"
      /\ q.holds = r.holds /\ q.asked = r.asked
  BY <1>0 DEF AsksAs, Record
<1> HIDE DEF g
<1>3. \A x \in Q : q.status[x] \in {"pending", "pruned"}
  BY <1>2 DEF ReadySound
<1>4. ASSUME GuardsPrivate(w), NEW x \in Q PROVE Guarded(w, q, x)
  <2>1. w[x].guard # g
    BY <1>0
  <2> QED BY <2>1, <1>2, <1>4, GuardDone DEF Guarded, GuardHolds
<1> QED BY <1>1, <1>3, <1>4, ReadyKept

---------------------------------------------------------------------------
(* Each operation keeps the arms of a switch exclusive.                    *)

\* s is a switch only whose own edges lead to its arms and to it.
LEMMA ExclusiveFacts ==
  ASSUME NEW w \in Workflows, NEW s \in DOMAIN w, w[s].cases # {}, Exclusive(w, s)
  PROVE  /\ w[s].kind = "switch" /\ w[s].onError # "continue" /\ w[s].cases \subseteq DOMAIN w
         /\ GuardsPrivate(w)
         /\ \A t \in w[s].cases : /\ t # s /\ w[t].kind # "guard"
                                  /\ w[t].guard = None => s \in w[t].deps
                                  /\ w[t].guard # None => /\ w[t].guard \in DOMAIN w
                                                          /\ w[w[t].guard].kind = "guard"
                                                          /\ w[w[t].guard].guard = None
                                                          /\ s \in w[w[t].guard].deps
         /\ \A y, t \in DOMAIN w : RoutesTo(w, y, t) /\ y # s => t # s /\ t \notin w[s].cases
<1>1. w[s].kind = "switch" /\ w[s].cases \subseteq DOMAIN w
  BY Loaded DEF Plainly
<1>2. /\ GuardsPrivate(w) /\ w[s].onError # "continue" /\ s \notin w[s].cases
      /\ \A t \in w[s].cases : s \in w[t].deps \/ (w[t].guard # None /\ s \in w[w[t].guard].deps)
      /\ \A y \in DOMAIN w : \A t \in w[s].cases \union {s} : RoutesTo(w, y, t) => y = s
  BY DEF Exclusive
<1>3. ASSUME NEW t \in w[s].cases
      PROVE  /\ t # s /\ w[t].kind # "guard"
             /\ w[t].guard = None => s \in w[t].deps
             /\ w[t].guard # None => /\ w[t].guard \in DOMAIN w
                                     /\ w[w[t].guard].kind = "guard"
                                     /\ w[w[t].guard].guard = None
                                     /\ s \in w[w[t].guard].deps
  <2>1. w[t].kind # "guard"
    BY <1>1, <1>2 DEF GuardsPrivate, RoutesTo
  <2>2. w[t].guard # None => /\ w[t].guard \in DOMAIN w /\ w[t].deps = {w[t].guard}
                             /\ w[w[t].guard].kind = "guard" /\ w[w[t].guard].guard = None
    BY <1>1, Loaded DEF WellGuarded
  <2> QED BY <1>1, <1>2, <2>1, <2>2
<1>4. \A y, t \in DOMAIN w : RoutesTo(w, y, t) /\ y # s => t # s /\ t \notin w[s].cases
  BY <1>2
<1> QED BY <1>1, <1>2, <1>3, <1>4

\* x is not an arm nobody has touched, nor the guard that keeps it.
Away(w, r, s, t, x) ==
  /\ x # t /\ (r.status[s] # "done" /\ w[t].guard # None => x # w[t].guard)
  /\ x = s => r.status[s] # "done"

\* A step that has run, or waits, is not one of those.
LEMMA ActiveAway ==
  ASSUME NEW w \in Workflows, NEW r \in Record(w), NEW Q, NEW s \in DOMAIN w, NEW t,
         Untouched(w, r, Q, s, t), NEW x \in DOMAIN w,
         r.attempt[x] > 0 \/ r.status[x] \in {"running", "suspended"},
         x = s => r.status[s] # "done"
  PROVE  Away(w, r, s, t, x)
BY DEF Untouched, Away

\* What holds of an arm survives what happens elsewhere.
LEMMA UntouchedKept ==
  ASSUME NEW w, NEW r \in Record(w), NEW q \in Record(w), NEW Q, NEW P, P \subseteq Q,
         NEW s \in DOMAIN w, NEW t \in DOMAIN w, Untouched(w, r, Q, s, t),
         q.attempt[t] = r.attempt[t], q.forced[t] = r.forced[t],
         q.status[t] = r.status[t] \/ q.status[t] = "pruned" \/
           (q.status[t] = "cancelled" /\ r.status[t] # "pruned"),
         q.status[s] = "done" <=> r.status[s] = "done",
         r.status[s] # "done" /\ w[t].guard # None =>
           LET g == w[t].guard IN
           /\ q.attempt[g] = r.attempt[g] /\ q.forced[g] = r.forced[g]
           /\ q.status[g] \in {r.status[g], "pruned", "cancelled"}
  PROVE  Untouched(w, q, P, s, t)
BY DEF Untouched

LEMMA UntouchedEnd ==
  ASSUME NEW w \in Workflows, NEW r \in Record(w), NEW Q, NEW s \in DOMAIN w,
         w[s].cases # {}, Exclusive(w, s), NEW t \in w[s].cases, Untouched(w, r, Q, s, t),
         NEW x \in DOMAIN w, NEW st \in Statuses, NEW q, EndsAs(w, r, q, x, st),
         (st = "pruned" /\ x # s) \/ Away(w, r, s, t, x), x = s => st # "done"
  PROVE  Untouched(w, q, Q, s, t)
<1>1. t \in DOMAIN w /\ (w[t].guard # None => w[t].guard \in DOMAIN w)
  BY ExclusiveFacts
<1>2. /\ q \in Record(w) /\ q.attempt = r.attempt /\ q.forced = r.forced
      /\ \A y \in DOMAIN w : q.status[y] = IF y = x THEN st ELSE r.status[y]
  BY DEF EndsAs, Record
<1> QED BY <1>1, <1>2, UntouchedKept DEF Away

LEMMA UntouchedBegin ==
  ASSUME NEW w \in Workflows, NEW r \in Record(w), NEW Q, NEW s \in DOMAIN w,
         w[s].cases # {}, Exclusive(w, s), NEW t \in w[s].cases, Untouched(w, r, Q, s, t),
         NEW x \in DOMAIN w, NEW q, BeginsAs(w, r, q, x), Away(w, r, s, t, x)
  PROVE  Untouched(w, q, Q, s, t)
<1>1. t \in DOMAIN w /\ (w[t].guard # None => w[t].guard \in DOMAIN w)
  BY ExclusiveFacts
<1>2. /\ q \in Record(w) /\ q.forced = r.forced
      /\ \A y \in DOMAIN w : q.status[y] = IF y = x THEN "running" ELSE r.status[y]
      /\ \A y \in DOMAIN w : y # x => q.attempt[y] = r.attempt[y]
  BY DEF BeginsAs, Record
<1> QED BY <1>1, <1>2, UntouchedKept DEF Away

LEMMA UntouchedStatus ==
  ASSUME NEW w \in Workflows, NEW r \in Record(w), NEW Q, NEW s \in DOMAIN w,
         w[s].cases # {}, Exclusive(w, s), NEW t \in w[s].cases, Untouched(w, r, Q, s, t),
         NEW x \in DOMAIN w, NEW st \in Statuses, st # "done", NEW q, SetsTo(w, r, q, x, st),
         Away(w, r, s, t, x)
  PROVE  Untouched(w, q, Q, s, t)
<1>1. t \in DOMAIN w /\ (w[t].guard # None => w[t].guard \in DOMAIN w)
  BY ExclusiveFacts
<1>2. /\ q \in Record(w) /\ q.attempt = r.attempt /\ q.forced = r.forced
      /\ \A y \in DOMAIN w : q.status[y] = IF y = x THEN st ELSE r.status[y]
  BY DEF SetsTo, Record
<1> QED BY <1>1, <1>2, UntouchedKept DEF Away

LEMMA UntouchedRoute ==
  ASSUME NEW w \in Workflows, NEW r \in Record(w), NEW Q, NEW s \in DOMAIN w,
         w[s].cases # {}, Exclusive(w, s), NEW t \in w[s].cases, Untouched(w, r, Q, s, t),
         NEW x \in DOMAIN w, NEW q, RoutesAs(w, r, q, x), Away(w, r, s, t, x)
  PROVE  Untouched(w, q, Q, s, t)
<1>1. t \in DOMAIN w /\ (w[t].guard # None => w[t].guard \in DOMAIN w)
  BY ExclusiveFacts
<1>2. /\ q \in Record(w) /\ q.attempt = r.attempt
      /\ \A y \in DOMAIN w : q.status[y] = IF y = x THEN "pending" ELSE r.status[y]
      /\ \A y \in DOMAIN w : y # x => q.forced[y] = r.forced[y]
  BY DEF RoutesAs, Record
<1> QED BY <1>1, <1>2, UntouchedKept DEF Away

LEMMA UntouchedFinish ==
  ASSUME NEW w \in Workflows, NEW r \in Record(w), NEW Q, NEW s \in DOMAIN w,
         w[s].cases # {}, Exclusive(w, s), NEW t \in w[s].cases, Untouched(w, r, Q, s, t),
         NEW o \in Outcomes, NEW q, FinishesAs(w, r, q, o)
  PROVE  Untouched(w, q, Q, s, t)
<1>1. t \in DOMAIN w /\ (w[t].guard # None => w[t].guard \in DOMAIN w)
  BY ExclusiveFacts
<1>2. /\ q \in Record(w) /\ q.attempt = r.attempt /\ q.forced = r.forced
      /\ \A y \in DOMAIN w : q.status[y] = r.status[y] \/
           (q.status[y] = "cancelled" /\ r.status[y] \notin {"pruned", "done"})
  BY DEF FinishesAs, Terminal
<1> QED BY <1>1, <1>2, UntouchedKept

LEMMA UntouchedPruned ==
  ASSUME NEW w \in Workflows, NEW r \in Record(w), NEW Q, NEW s \in DOMAIN w,
         w[s].cases # {}, Exclusive(w, s), NEW t \in w[s].cases, Untouched(w, r, Q, s, t),
         NEW A \in SUBSET DOMAIN w, NEW q, PrunesAs(w, r, q, A)
  PROVE  Untouched(w, q, Q, s, t)
<1>1. t \in DOMAIN w /\ (w[t].guard # None => w[t].guard \in DOMAIN w)
  BY ExclusiveFacts
<1>2. /\ q \in Record(w) /\ q.attempt = r.attempt /\ q.forced = r.forced
      /\ \A y \in DOMAIN w : q.status[y] = r.status[y] \/
           (q.status[y] = "pruned" /\ r.status[y] = "pending")
  BY DEF PrunesAs
<1> QED BY <1>1, <1>2, UntouchedKept

LEMMA UntouchedAsk ==
  ASSUME NEW w \in Workflows, NEW r \in Record(w), NEW Q, NEW s \in DOMAIN w,
         w[s].cases # {}, Exclusive(w, s), NEW t \in w[s].cases, Untouched(w, r, Q, s, t),
         NEW x \in DOMAIN w, w[x].guard # None, r.forced[x], NEW q, AsksAs(w, r, q, x)
  PROVE  Untouched(w, q, Q, s, t) /\ q.status[s] = r.status[s]
<1> DEFINE g == w[x].guard
<1>0. /\ g \in DOMAIN w /\ w[g].kind = "guard" /\ w[g].guard = None
      /\ \A y \in DOMAIN w : w[y].guard = g => y = x
  BY GuardOf DEF WellGuarded
<1>1. /\ t \in DOMAIN w /\ w[t].kind # "guard" /\ w[s].kind = "switch"
      /\ w[t].guard # None => w[t].guard \in DOMAIN w /\ w[w[t].guard].guard = None
  BY ExclusiveFacts
<1>2. x # t
  BY DEF Untouched
<1>3. t # g /\ s # g /\ w[t].guard # g /\ (w[t].guard # None => w[t].guard # x)
  BY <1>0, <1>1, <1>2
<1>4. /\ \A y \in DOMAIN w \ {x, g} : q.forced[y] = r.forced[y]
      /\ \A y \in DOMAIN w \ {g} : q.status[y] = r.status[y]
  BY AskElsewhere
<1>5. q \in Record(w) /\ q.attempt = r.attempt
  BY DEF AsksAs
<1> HIDE DEF g
<1> QED BY <1>1, <1>2, <1>3, <1>4, <1>5, UntouchedKept

LEMMA UntouchedAnswer ==
  ASSUME NEW w \in Workflows, NEW r \in Record(w), NEW Q, NEW s \in DOMAIN w,
         w[s].cases # {}, Exclusive(w, s), NEW t \in w[s].cases, Untouched(w, r, Q, s, t),
         NEW x \in DOMAIN w, x # s, NEW q, AnswersAs(w, r, q, x), Away(w, r, s, t, x)
  PROVE  Untouched(w, q, Q, s, t)
<1>1. t \in DOMAIN w /\ (w[t].guard # None => w[t].guard \in DOMAIN w)
  BY ExclusiveFacts
<1>2. /\ q \in Record(w) /\ q.attempt = r.attempt /\ q.forced = r.forced
      /\ \A y \in DOMAIN w : q.status[y] = IF y = x THEN "done" ELSE r.status[y]
  BY DEF AnswersAs, Record
<1> QED BY <1>1, <1>2, UntouchedKept DEF Away

LEMMA UntouchedReplay ==
  ASSUME NEW w \in Workflows, NEW r \in Record(w), SwitchAtOnce(w, r), NEW Q, NEW s \in DOMAIN w,
         w[s].cases # {}, Exclusive(w, s), NEW t \in w[s].cases, Untouched(w, r, Q, s, t),
         NEW q, ReplaysAs(w, r, q)
  PROVE  Untouched(w, q, Q, s, t) /\ q.status[s] = r.status[s]
<1>1. /\ t \in DOMAIN w /\ (w[t].guard # None => w[t].guard \in DOMAIN w)
      /\ w[s].kind = "switch"
  BY ExclusiveFacts
<1>2. /\ q \in Record(w) /\ q.attempt = r.attempt /\ q.forced = r.forced
      /\ \A y \in DOMAIN w : r.status[y] # "running" => q.status[y] = r.status[y]
  BY DEF ReplaysAs
<1>3. r.status[s] # "running" /\ r.status[t] # "running"
  BY <1>1 DEF SwitchAtOnce, Untouched
<1>4. r.status[s] # "done" /\ w[t].guard # None => r.status[w[t].guard] # "running"
  BY DEF Untouched
<1> QED BY <1>1, <1>2, <1>3, <1>4, UntouchedKept

\* The switches other than x, whose step is being dealt with.
ArmsElsewhere(w, r, Q, x) ==
  \A s \in DOMAIN w \ {x} :
    w[s].cases # {} /\ Exclusive(w, s) /\ "pruned" \notin r.ends[s] => OneArm(w, r, Q, s)

\* The switch x.
OwnArms(w, r, Q, x) ==
  w[x].cases # {} /\ Exclusive(w, x) /\ "pruned" \notin r.ends[x] => OneArm(w, r, Q, x)

LEMMA ArmsTogether ==
  ASSUME NEW w, NEW r, NEW Q, NEW x \in DOMAIN w
  PROVE  ArmsSound(w, r, Q) <=> ArmsElsewhere(w, r, Q, x) /\ OwnArms(w, r, Q, x)
BY DEF ArmsSound, ArmsElsewhere, OwnArms

LEMMA OneArmKept ==
  ASSUME NEW w, NEW r, NEW q, NEW Q, NEW P, NEW s, OneArm(w, r, Q, s),
         \A t \in w[s].cases : Untouched(w, r, Q, s, t) => Untouched(w, q, P, s, t),
         q.status[s] \in {"pending", "suspended"} => r.status[s] \in {"pending", "suspended"}
  PROVE  OneArm(w, q, P, s)
BY DEF OneArm

\* A shorter list asks less.
LEMMA ArmsFewer ==
  ASSUME NEW w \in Workflows, NEW r \in Record(w), NEW Q, NEW P, P \subseteq Q,
         ArmsSound(w, r, Q)
  PROVE  ArmsSound(w, r, P)
<1>1. ASSUME NEW s \in DOMAIN w, OneArm(w, r, Q, s) PROVE OneArm(w, r, P, s)
  <2>1. \A t \in w[s].cases : Untouched(w, r, Q, s, t) => Untouched(w, r, P, s, t)
    BY DEF Untouched
  <2> QED BY <1>1, <2>1, OneArmKept
<1> QED BY <1>1 DEF ArmsSound

\* A step of the list starts.
LEMMA ArmsBegin ==
  ASSUME NEW w \in Workflows, NEW r \in Record(w), NEW Q, ArmsSound(w, r, Q),
         NEW x \in DOMAIN w, x \in Q, r.status[x] = "pending", NEW q, BeginsAs(w, r, q, x)
  PROVE  /\ ArmsSound(w, q, Q)
         /\ w[x].cases # {} /\ Exclusive(w, x) /\ "pruned" \notin q.ends[x] =>
              \A t \in w[x].cases : Untouched(w, q, Q, x, t)
<1>1. /\ q.ends = r.ends /\ \A y \in DOMAIN w : y # x => q.status[y] = r.status[y]
      /\ q.status[x] = "running"
  BY DEF BeginsAs, Record
<1>2. ASSUME NEW s \in DOMAIN w, w[s].cases # {}, Exclusive(w, s),
             NEW t \in w[s].cases, Untouched(w, r, Q, s, t)
      PROVE  Untouched(w, q, Q, s, t)
  <2>1. Away(w, r, s, t, x)
    BY <1>2 DEF Untouched, Away
  <2> QED BY <1>2, <2>1, UntouchedBegin
<1>3. ASSUME NEW s \in DOMAIN w, w[s].cases # {}, Exclusive(w, s), "pruned" \notin q.ends[s]
      PROVE  OneArm(w, q, Q, s)
  <2>1. OneArm(w, r, Q, s)
    BY <1>1, <1>3 DEF ArmsSound
  <2>2. q.status[s] \in {"pending", "suspended"} => r.status[s] \in {"pending", "suspended"}
    BY <1>1
  <2> QED BY <1>2, <1>3, <2>1, <2>2, OneArmKept
<1>4. ASSUME w[x].cases # {}, Exclusive(w, x), "pruned" \notin q.ends[x], NEW t \in w[x].cases
      PROVE  Untouched(w, q, Q, x, t)
  <2>1. OneArm(w, r, Q, x)
    BY <1>1, <1>4 DEF ArmsSound
  <2>2. Untouched(w, r, Q, x, t)
    BY <2>1 DEF OneArm
  <2> QED BY <1>2, <1>4, <2>2
<1> QED BY <1>3, <1>4 DEF ArmsSound

\* A step the pass looks at is pruned.
LEMMA ArmsPrune ==
  ASSUME NEW w \in Workflows, NEW r \in Record(w), NEW Q, ArmsSound(w, r, Q),
         NEW x \in DOMAIN w, NEW q, EndsAs(w, r, q, x, "pruned")
  PROVE  ArmsSound(w, q, Q)
<1>1. ASSUME NEW s \in DOMAIN w, w[s].cases # {}, Exclusive(w, s), "pruned" \notin q.ends[s]
      PROVE  OneArm(w, q, Q, s)
  <2>1. /\ x # s /\ q.status[s] = r.status[s] /\ "pruned" \notin r.ends[s]
    BY <1>1 DEF EndsAs, Record
  <2>2. OneArm(w, r, Q, s)
    BY <1>1, <2>1 DEF ArmsSound
  <2>3. \A t \in w[s].cases : Untouched(w, r, Q, s, t) => Untouched(w, q, Q, s, t)
    BY <1>1, <2>1, UntouchedEnd DEF Statuses
  <2> QED BY <2>1, <2>2, <2>3, OneArmKept
<1> QED BY <1>1 DEF ArmsSound

LEMMA ArmsAsk ==
  ASSUME NEW w \in Workflows, NEW r \in Record(w), NEW Q, ArmsSound(w, r, Q),
         NEW x \in DOMAIN w, w[x].guard # None, r.forced[x], NEW q, AsksAs(w, r, q, x)
  PROVE  ArmsSound(w, q, Q)
<1>1. ASSUME NEW s \in DOMAIN w, w[s].cases # {}, Exclusive(w, s), "pruned" \notin q.ends[s]
      PROVE  OneArm(w, q, Q, s)
  <2>1. OneArm(w, r, Q, s)
    BY <1>1 DEF ArmsSound, AsksAs
  <2>2. \A t \in w[s].cases : Untouched(w, r, Q, s, t) =>
                                Untouched(w, q, Q, s, t) /\ q.status[s] = r.status[s]
    BY <1>1, UntouchedAsk
  <2>3. q.status[s] = r.status[s]
    <3>1. w[w[x].guard].kind = "guard" /\ w[s].kind = "switch"
      BY <1>1, ExclusiveFacts, GuardOf DEF WellGuarded
    <3> QED BY <3>1, AskElsewhere
  <2> QED BY <2>1, <2>2, <2>3, OneArmKept
<1> QED BY <1>1 DEF ArmsSound

LEMMA ArmsReplay ==
  ASSUME NEW w \in Workflows, NEW r \in Record(w), NEW Q, ArmsSound(w, r, Q),
         SwitchAtOnce(w, r), NEW q, ReplaysAs(w, r, q)
  PROVE  ArmsSound(w, q, Q)
<1>1. ASSUME NEW s \in DOMAIN w, w[s].cases # {}, Exclusive(w, s), "pruned" \notin q.ends[s]
      PROVE  OneArm(w, q, Q, s)
  <2>1. r.status[s] # "running"
    BY <1>1, ExclusiveFacts DEF SwitchAtOnce
  <2>2. q.status[s] = r.status[s] /\ q.ends[s] = r.ends[s]
    BY <2>1 DEF ReplaysAs
  <2>3. OneArm(w, r, Q, s)
    BY <1>1, <2>2 DEF ArmsSound
  <2>4. \A t \in w[s].cases : Untouched(w, r, Q, s, t) => Untouched(w, q, Q, s, t)
    BY <1>1, UntouchedReplay
  <2> QED BY <2>2, <2>3, <2>4, OneArmKept
<1> QED BY <1>1 DEF ArmsSound

LEMMA ArmsFinish ==
  ASSUME NEW w \in Workflows, NEW r \in Record(w), NEW Q, ArmsSound(w, r, Q),
         NEW o \in Outcomes, NEW q, FinishesAs(w, r, q, o)
  PROVE  ArmsSound(w, q, Q)
<1>1. ASSUME NEW s \in DOMAIN w, w[s].cases # {}, Exclusive(w, s), "pruned" \notin q.ends[s]
      PROVE  OneArm(w, q, Q, s)
  <2>1. OneArm(w, r, Q, s)
    BY <1>1 DEF ArmsSound, FinishesAs
  <2>2. q.status[s] \notin {"pending", "suspended"}
    BY DEF FinishesAs, Terminal
  <2>3. \A t \in w[s].cases : Untouched(w, r, Q, s, t) => Untouched(w, q, Q, s, t)
    BY <1>1, UntouchedFinish
  <2> QED BY <2>1, <2>2, <2>3, OneArmKept
<1> QED BY <1>1 DEF ArmsSound

---------------------------------------------------------------------------
(* The end of a step, operation by operation: r is the record before, q    *)
(* the record so far, Q the rest of the ready list.                        *)

\* x runs, waits or has run: an answer for it is being applied.
Active(r, x) == r.attempt[x] > 0 \/ r.status[x] \notin {"pending", "pruned", "cancelled"}

\* x has just begun, from the head of the list.
Begun(w, r, Q, x) ==
  /\ r.status[x] = "running" /\ x \notin r.replaying
  /\ Q \subseteq DOMAIN w /\ x \notin Q /\ ReadySound(w, r, Q)

SwitchElsewhere(w, r, x) ==
  \A s \in DOMAIN w \ {x} :
    w[s].kind = "switch" => r.status[s] \notin {"running", "skipped", "timeout"}

Along(w, r, q, Q, x) ==
  /\ q \in Record(w) /\ Sound(w, q) /\ q.outcome = "live" /\ q.attempt = r.attempt
  /\ q.replaying \subseteq r.replaying
  /\ ArmsElsewhere(w, q, Q, x) /\ SwitchElsewhere(w, q, x)
  /\ Begun(w, r, Q, x) => Follows(w, r, q) /\ ReadySound(w, q, Q)
  /\ \A s \in DOMAIN w : q.status[s] = "pruned" => r.status[s] = "pruned" \/ s \in w[x].cases

LEMMA AlongSelf ==
  ASSUME NEW w \in Workflows, NEW r \in Record(w), Sound(w, r), ~Over(r), NEW Q, NEW x \in DOMAIN w,
         ArmsElsewhere(w, r, Q, x), SwitchElsewhere(w, r, x)
  PROVE  Along(w, r, r, Q, x)
BY FollowsRefl DEF Along, Begun, Over

\* Where an arm nobody has touched stays so, its switch stays sound.
LEMMA ElsewhereKept ==
  ASSUME NEW w \in Workflows, NEW r \in Record(w), NEW q \in Record(w), NEW Q, NEW x \in DOMAIN w,
         ArmsElsewhere(w, r, Q, x),
         \A s \in DOMAIN w \ {x} : w[s].cases # {} /\ Exclusive(w, s) =>
           /\ \A t \in w[s].cases : Untouched(w, r, Q, s, t) => Untouched(w, q, Q, s, t)
           /\ "pruned" \in r.ends[s] => "pruned" \in q.ends[s]
           /\ "pruned" \notin q.ends[s] /\ q.status[s] \in {"pending", "suspended"} =>
                r.status[s] \in {"pending", "suspended"}
  PROVE  ArmsElsewhere(w, q, Q, x)
<1> SUFFICES ASSUME NEW s \in DOMAIN w \ {x}, w[s].cases # {}, Exclusive(w, s),
                    "pruned" \notin q.ends[s]
             PROVE  OneArm(w, q, Q, s)
  BY DEF ArmsElsewhere
<1>1. OneArm(w, r, Q, s)
  BY DEF ArmsElsewhere
<1> QED BY <1>1, OneArmKept

\* A step that is active is none of the untouched arms of another switch.
LEMMA AwayElsewhere ==
  ASSUME NEW w \in Workflows, NEW r \in Record(w), NEW Q, NEW x \in DOMAIN w, Active(r, x),
         NEW s \in DOMAIN w \ {x}, NEW t, Untouched(w, r, Q, s, t)
  PROVE  Away(w, r, s, t, x)
BY DEF Active, Untouched, Away

LEMMA AlongEnd ==
  ASSUME NEW w \in Workflows, NEW r \in Record(w), NEW e, NEW Q, NEW x \in DOMAIN w,
         Along(w, r, e, Q, x), Active(e, x), e.status[x] # "done" \/ ~Begun(w, r, Q, x),
         NEW st \in {"done", "failed", "timeout"}, st = "done" => w[x].kind # "guard",
         NEW q, EndsAs(w, e, q, x, st)
  PROVE  Along(w, r, q, Q, x)
<1>0. /\ e \in Record(w) /\ Sound(w, e) /\ e.outcome = "live" /\ e.attempt = r.attempt
      /\ ArmsElsewhere(w, e, Q, x) /\ SwitchElsewhere(w, e, x)
      /\ st \in Statuses \ {"cancelled"} /\ Terminal(st)
  BY DEF Along, Statuses, Terminal
<1>1. /\ q \in Record(w) /\ q.outcome = "live" /\ q.attempt = r.attempt
      /\ \A y \in DOMAIN w : q.status[y] = IF y = x THEN st ELSE e.status[y]
      /\ \A y \in DOMAIN w \ {x} : q.ends[y] = e.ends[y]
  BY <1>0 DEF EndsAs, Record
<1>2. Sound(w, q)
  BY <1>0, SoundEnd
<1>3. ArmsElsewhere(w, q, Q, x)
  <2>1. \A s \in DOMAIN w \ {x} : w[s].cases # {} /\ Exclusive(w, s) =>
          \A t \in w[s].cases : Untouched(w, e, Q, s, t) => Untouched(w, q, Q, s, t)
    BY <1>0, UntouchedEnd, AwayElsewhere
  <2> QED BY <1>0, <1>1, <2>1, ElsewhereKept
<1>4. SwitchElsewhere(w, q, x)
  BY <1>0, <1>1 DEF SwitchElsewhere
<1>5. ASSUME Begun(w, r, Q, x) PROVE Follows(w, r, q) /\ ReadySound(w, q, Q)
  <2>1. Follows(w, r, e) /\ ReadySound(w, e, Q) /\ x \notin e.replaying /\ x \notin Q
        /\ Q \in SUBSET DOMAIN w
    BY <1>5 DEF Along, Begun, Follows
  <2>2. Follows(w, e, q)
    BY <1>0, <2>1, FollowsEnd
  <2>3. ReadySound(w, q, Q)
    BY <1>0, <1>5, <2>1, ReadyEnd
  <2> QED BY <1>0, <1>1, <2>1, <2>2, <2>3, FollowsTrans
<1>6. \A s \in DOMAIN w : q.status[s] = "pruned" => r.status[s] = "pruned" \/ s \in w[x].cases
  BY <1>1 DEF Along
<1>7. q.replaying \subseteq r.replaying
  BY DEF Along, EndsAs
<1> QED BY <1>1, <1>2, <1>3, <1>4, <1>5, <1>6, <1>7 DEF Along

LEMMA AlongStatus ==
  ASSUME NEW w \in Workflows, NEW r \in Record(w), NEW e, NEW Q, NEW x \in DOMAIN w,
         Along(w, r, e, Q, x), Active(e, x), e.status[x] \in {"running", "suspended"} \/ ~Begun(w, r, Q, x),
         w[x].kind = "start" => ~Terminal(e.status[x]),
         NEW st \in {"pending", "suspended"}, NEW q, SetsTo(w, e, q, x, st)
  PROVE  Along(w, r, q, Q, x)
<1>0. /\ e \in Record(w) /\ Sound(w, e) /\ e.outcome = "live" /\ e.attempt = r.attempt
      /\ ArmsElsewhere(w, e, Q, x) /\ SwitchElsewhere(w, e, x)
      /\ st \in Statuses \ {"pruned"} /\ st # "done"
  BY DEF Along, Statuses
<1>1. /\ q \in Record(w) /\ q.outcome = "live" /\ q.attempt = r.attempt /\ q.ends = e.ends
      /\ \A y \in DOMAIN w : q.status[y] = IF y = x THEN st ELSE e.status[y]
  BY <1>0 DEF SetsTo, Record
<1>2. Sound(w, q)
  BY <1>0, SoundStatus
<1>3. ArmsElsewhere(w, q, Q, x)
  <2>1. \A s \in DOMAIN w \ {x} : w[s].cases # {} /\ Exclusive(w, s) =>
          \A t \in w[s].cases : Untouched(w, e, Q, s, t) => Untouched(w, q, Q, s, t)
    BY <1>0, UntouchedStatus, AwayElsewhere
  <2> QED BY <1>0, <1>1, <2>1, ElsewhereKept
<1>4. SwitchElsewhere(w, q, x)
  BY <1>0, <1>1 DEF SwitchElsewhere
<1>5. ASSUME Begun(w, r, Q, x) PROVE Follows(w, r, q) /\ ReadySound(w, q, Q)
  <2>1. Follows(w, r, e) /\ ReadySound(w, e, Q) /\ x \notin Q /\ Q \in SUBSET DOMAIN w
        /\ e.status[x] \notin {"done", "pruned"}
    BY <1>5 DEF Along, Begun
  <2>2. Follows(w, e, q)
    BY <1>0, <2>1, FollowsStatus
  <2>3. ReadySound(w, q, Q)
    BY <1>0, <2>1, ReadyStatus
  <2> QED BY <1>0, <1>1, <2>1, <2>2, <2>3, FollowsTrans
<1>6. \A s \in DOMAIN w : q.status[s] = "pruned" => r.status[s] = "pruned" \/ s \in w[x].cases
  BY <1>1 DEF Along
<1>7. q.replaying \subseteq r.replaying
  BY DEF Along, SetsTo
<1> QED BY <1>1, <1>2, <1>3, <1>4, <1>5, <1>6, <1>7 DEF Along

\* x's own edge leads to y.
LEMMA AlongRoute ==
  ASSUME NEW w \in Workflows, NEW r \in Record(w), NEW e, NEW Q, NEW x \in DOMAIN w,
         Along(w, r, e, Q, x), NEW y \in DOMAIN w, RoutesTo(w, x, y), NEW q, RoutesAs(w, e, q, y)
  PROVE  Along(w, r, q, Q, x)
<1>0. /\ e \in Record(w) /\ Sound(w, e) /\ e.outcome = "live" /\ e.attempt = r.attempt
      /\ ArmsElsewhere(w, e, Q, x) /\ SwitchElsewhere(w, e, x)
  BY DEF Along
<1>1. /\ q \in Record(w) /\ q.outcome = "live" /\ q.attempt = r.attempt /\ q.ends = e.ends
      /\ \A z \in DOMAIN w : q.status[z] = IF z = y THEN "pending" ELSE e.status[z]
  BY <1>0 DEF RoutesAs, Record
<1>2. Sound(w, q)
  BY <1>0, SoundRoute
<1>3. ArmsElsewhere(w, q, Q, x)
  <2>1. ASSUME NEW s \in DOMAIN w \ {x}, w[s].cases # {}, Exclusive(w, s)
        PROVE  /\ y # s
               /\ \A t \in w[s].cases : Untouched(w, e, Q, s, t) => Untouched(w, q, Q, s, t)
    <3>1. /\ y # s /\ y \notin w[s].cases /\ GuardsPrivate(w)
          /\ \A t \in w[s].cases : w[t].guard # None => w[w[t].guard].kind = "guard"
      BY <2>1, ExclusiveFacts
    <3>2. w[y].kind # "guard"
      BY <3>1 DEF GuardsPrivate
    <3>3. \A t \in w[s].cases : Away(w, e, s, t, y)
      BY <3>1, <3>2 DEF Away
    <3> QED BY <1>0, <2>1, <3>1, <3>3, UntouchedRoute
  <2> QED BY <1>0, <1>1, <2>1, ElsewhereKept
<1>4. SwitchElsewhere(w, q, x)
  BY <1>0, <1>1 DEF SwitchElsewhere
<1>5. ASSUME Begun(w, r, Q, x) PROVE Follows(w, r, q) /\ ReadySound(w, q, Q)
  <2>1. Follows(w, r, e) /\ ReadySound(w, e, Q) /\ Q \in SUBSET DOMAIN w
    BY <1>5 DEF Along, Begun
  <2>2. Follows(w, e, q)
    BY <1>0, FollowsRoute
  <2>3. ReadySound(w, q, Q)
    BY <1>0, <2>1, ReadyRoute
  <2> QED BY <1>0, <1>1, <2>1, <2>2, <2>3, FollowsTrans
<1>6. \A s \in DOMAIN w : q.status[s] = "pruned" => r.status[s] = "pruned" \/ s \in w[x].cases
  BY <1>1 DEF Along
<1>7. q.replaying \subseteq r.replaying
  BY DEF Along, RoutesAs
<1> QED BY <1>1, <1>2, <1>3, <1>4, <1>5, <1>6, <1>7 DEF Along

LEMMA AlongPruned ==
  ASSUME NEW w \in Workflows, NEW r \in Record(w), NEW e, NEW Q, NEW x \in DOMAIN w,
         Along(w, r, e, Q, x), NEW A \in SUBSET w[x].cases, NEW q, PrunesAs(w, e, q, A)
  PROVE  Along(w, r, q, Q, x)
<1>0. /\ e \in Record(w) /\ Sound(w, e) /\ e.outcome = "live" /\ e.attempt = r.attempt
      /\ ArmsElsewhere(w, e, Q, x) /\ SwitchElsewhere(w, e, x)
  BY DEF Along
<1>1. A \in SUBSET DOMAIN w
  BY Loaded DEF Plainly
<1>2. /\ q \in Record(w) /\ q.outcome = "live" /\ q.attempt = r.attempt
      /\ \A z \in DOMAIN w : \/ q.status[z] = e.status[z] /\ q.ends[z] = e.ends[z]
                             \/ /\ q.status[z] = "pruned" /\ z \in A
                                /\ q.ends[z] = e.ends[z] \union {"pruned"}
  BY <1>0 DEF PrunesAs
<1>3. Sound(w, q)
  BY <1>0, <1>1, SoundPruned
<1>4. ArmsElsewhere(w, q, Q, x)
  <2>1. \A s \in DOMAIN w \ {x} : w[s].cases # {} /\ Exclusive(w, s) =>
          \A t \in w[s].cases : Untouched(w, e, Q, s, t) => Untouched(w, q, Q, s, t)
    BY <1>0, <1>1, UntouchedPruned
  <2> QED BY <1>0, <1>2, <2>1, ElsewhereKept
<1>5. SwitchElsewhere(w, q, x)
  BY <1>0, <1>2 DEF SwitchElsewhere
<1>6. ASSUME Begun(w, r, Q, x) PROVE Follows(w, r, q) /\ ReadySound(w, q, Q)
  <2>1. Follows(w, r, e) /\ ReadySound(w, e, Q) /\ Q \in SUBSET DOMAIN w
    BY <1>6 DEF Along, Begun
  <2>2. Follows(w, e, q)
    BY <1>0, <1>1, FollowsPruned
  <2>3. ReadySound(w, q, Q)
    BY <1>0, <1>1, <2>1, ReadyPruned
  <2> QED BY <1>0, <1>2, <2>1, <2>2, <2>3, FollowsTrans
<1>7. \A s \in DOMAIN w : q.status[s] = "pruned" => r.status[s] = "pruned" \/ s \in w[x].cases
  BY <1>2 DEF Along
<1>8. q.replaying \subseteq r.replaying
  BY DEF Along, PrunesAs
<1> QED BY <1>2, <1>3, <1>4, <1>5, <1>6, <1>7, <1>8 DEF Along

\* A guard answers; the list is empty by then.
LEMMA AlongAnswer ==
  ASSUME NEW w \in Workflows, NEW r \in Record(w), NEW e, NEW Q, NEW x \in DOMAIN w,
         Along(w, r, e, Q, x), Active(e, x), Q = {}, NEW q, AnswersAs(w, e, q, x)
  PROVE  Along(w, r, q, Q, x)
<1>0. /\ e \in Record(w) /\ Sound(w, e) /\ e.outcome = "live" /\ e.attempt = r.attempt
      /\ ArmsElsewhere(w, e, Q, x) /\ SwitchElsewhere(w, e, x)
  BY DEF Along
<1>1. /\ q \in Record(w) /\ q.outcome = "live" /\ q.attempt = r.attempt
      /\ \A y \in DOMAIN w : q.status[y] = IF y = x THEN "done" ELSE e.status[y]
      /\ \A y \in DOMAIN w \ {x} : q.ends[y] = e.ends[y]
  BY <1>0 DEF AnswersAs, Record
<1>2. Sound(w, q)
  BY <1>0, SoundAnswer
<1>3. ArmsElsewhere(w, q, Q, x)
  <2>1. \A s \in DOMAIN w \ {x} : w[s].cases # {} /\ Exclusive(w, s) =>
          \A t \in w[s].cases : Untouched(w, e, Q, s, t) => Untouched(w, q, Q, s, t)
    BY <1>0, UntouchedAnswer, AwayElsewhere
  <2> QED BY <1>0, <1>1, <2>1, ElsewhereKept
<1>4. SwitchElsewhere(w, q, x)
  BY <1>0, <1>1 DEF SwitchElsewhere
<1>5. ASSUME Begun(w, r, Q, x) PROVE Follows(w, r, q) /\ ReadySound(w, q, Q)
  <2>1. Follows(w, r, e) /\ x \notin e.replaying
    BY <1>5 DEF Along, Begun, Follows
  <2>2. Follows(w, e, q)
    BY <1>0, <2>1 DEF AnswersAs, Follows, Record
  <2>3. ReadySound(w, q, Q)
    BY DEF ReadySound
  <2> QED BY <1>0, <1>1, <2>1, <2>2, <2>3, FollowsTrans
<1>6. \A s \in DOMAIN w : q.status[s] = "pruned" => r.status[s] = "pruned" \/ s \in w[x].cases
  BY <1>1 DEF Along
<1>7. q.replaying \subseteq r.replaying
  BY DEF Along, AnswersAs
<1> QED BY <1>1, <1>2, <1>3, <1>4, <1>5, <1>6, <1>7 DEF Along

---------------------------------------------------------------------------
(* What a step's end leaves.                                               *)

Lands(w, r, q, Q, x) ==
  /\ q \in Record(w) /\ Sound(w, q) /\ SwitchAtOnce(w, q) /\ ArmsSound(w, q, Q)
  /\ q.attempt = r.attempt /\ q.replaying \subseteq r.replaying
  /\ \/ q.outcome = "live"
     \/ q.outcome \in Declared /\ \A s \in DOMAIN w : Terminal(q.status[s])
  /\ Begun(w, r, Q, x) => Follows(w, r, q) /\ (Over(q) \/ ReadySound(w, q, Q))
  /\ \A s \in DOMAIN w : q.status[s] = "pruned" => r.status[s] = "pruned" \/ s \in w[x].cases

LEMMA AlongLands ==
  ASSUME NEW w \in Workflows, NEW r, NEW q, NEW Q, NEW x \in DOMAIN w, Along(w, r, q, Q, x),
         OwnArms(w, q, Q, x),
         w[x].kind = "switch" => q.status[x] \notin {"running", "skipped", "timeout"}
  PROVE  Lands(w, r, q, Q, x)
<1>1. ArmsSound(w, q, Q)
  BY ArmsTogether DEF Along
<1>2. SwitchAtOnce(w, q)
  BY DEF Along, SwitchElsewhere, SwitchAtOnce
<1> QED BY <1>1, <1>2 DEF Along, Lands

LEMMA AlongFinish ==
  ASSUME NEW w \in Workflows, NEW r \in Record(w), NEW e, NEW Q, NEW x \in DOMAIN w,
         Along(w, r, e, Q, x), OwnArms(w, e, Q, x),
         w[x].kind = "switch" => e.status[x] \notin {"running", "skipped", "timeout"},
         NEW o \in Declared, NEW q, FinishesAs(w, e, q, o)
  PROVE  Lands(w, r, q, Q, x)
<1>0. /\ Lands(w, r, e, Q, x) /\ e \in Record(w) /\ o \in Outcomes \ {"live"}
      /\ Sound(w, e) /\ ArmsSound(w, e, Q) /\ SwitchAtOnce(w, e) /\ e.attempt = r.attempt
  BY AlongLands DEF Lands, Outcomes, Declared
<1>1. /\ q \in Record(w) /\ q.outcome = o /\ q.attempt = e.attempt /\ q.replaying = e.replaying
      /\ \A s \in DOMAIN w : q.status[s] = e.status[s] \/ q.status[s] = "cancelled"
      /\ \A s \in DOMAIN w : Terminal(q.status[s])
  BY DEF FinishesAs, Terminal
<1>2. Sound(w, q) /\ ArmsSound(w, q, Q)
  BY <1>0, SoundFinish, ArmsFinish
<1>3. SwitchAtOnce(w, q)
  BY <1>0, <1>1 DEF SwitchAtOnce
<1>4. Begun(w, r, Q, x) => Follows(w, r, q)
  <2>1. Follows(w, e, q)
    BY <1>0, FollowsFinish
  <2>2. Begun(w, r, Q, x) => Follows(w, r, e)
    BY DEF Along
  <2> QED BY <1>0, <1>1, <2>1, <2>2, FollowsTrans
<1>5. Over(q)
  BY <1>0, <1>1 DEF Over
<1>6. \A s \in DOMAIN w : q.status[s] = "pruned" => r.status[s] = "pruned" \/ s \in w[x].cases
  BY <1>1 DEF Along
<1>7. q.attempt = r.attempt /\ q.replaying \subseteq r.replaying
  BY <1>0, <1>1 DEF Lands
<1> QED BY <1>1, <1>2, <1>3, <1>4, <1>5, <1>6, <1>7 DEF Lands

\* Nobody has touched an arm of x.
Fresh(w, r, Q, x) ==
  w[x].cases # {} /\ Exclusive(w, x) /\ "pruned" \notin r.ends[x] =>
    \A t \in w[x].cases : Untouched(w, r, Q, x, t)

\* The run goes on, and x is a step whose end, failure or retry is due.
Acting(w, r, Q, x) ==
  /\ r \in Record(w) /\ Sound(w, r) /\ ~Over(r) /\ Active(r, x)
  /\ ArmsElsewhere(w, r, Q, x) /\ SwitchElsewhere(w, r, x)
  /\ w[x].kind = "start" => ~Terminal(r.status[x])
  /\ w[x].kind = "switch" => r.status[x] \in {"running", "suspended"} /\ Fresh(w, r, Q, x)

LEMMA OwnFresh ==
  ASSUME NEW w \in Workflows, NEW r, NEW Q, NEW x \in DOMAIN w,
         w[x].kind = "switch" => Fresh(w, r, Q, x)
  PROVE  OwnArms(w, r, Q, x)
<1>1. w[x].cases # {} => w[x].kind = "switch"
  BY Loaded DEF Plainly
<1> QED BY <1>1 DEF Fresh, OwnArms, OneArm

\* A switch is none of its own arms or their guards.
LEMMA AwayFromOwn ==
  ASSUME NEW w \in Workflows, NEW r, NEW x \in DOMAIN w, w[x].cases # {}, Exclusive(w, x),
         r.status[x] # "done", NEW t \in w[x].cases
  PROVE  Away(w, r, x, t, x)
BY ExclusiveFacts DEF Away

\* A switch is retried.
LEMMA FreshStatus ==
  ASSUME NEW w \in Workflows, NEW r \in Record(w), NEW Q, NEW x \in DOMAIN w, Fresh(w, r, Q, x),
         r.status[x] # "done", NEW st \in {"pending", "suspended"}, NEW q, SetsTo(w, r, q, x, st)
  PROVE  Fresh(w, q, Q, x)
<1>1. q.ends = r.ends /\ st \in Statuses /\ st # "done"
  BY DEF SetsTo, Statuses
<1> QED BY <1>1, AwayFromOwn, UntouchedStatus DEF Fresh

\* It fails.
LEMMA FreshEnd ==
  ASSUME NEW w \in Workflows, NEW r \in Record(w), NEW Q, NEW x \in DOMAIN w, Fresh(w, r, Q, x),
         r.status[x] # "done", NEW q, EndsAs(w, r, q, x, "failed")
  PROVE  Fresh(w, q, Q, x)
<1>1. "failed" \in Statuses /\ r.ends[x] \subseteq q.ends[x]
  BY DEF EndsAs, Record, Statuses
<1> QED BY <1>1, AwayFromOwn, UntouchedEnd DEF Fresh

\* Its failure leads to a step, perhaps to one of its arms.
LEMMA FreshRoute ==
  ASSUME NEW w \in Workflows, NEW r \in Record(w), NEW Q, NEW x \in DOMAIN w, Fresh(w, r, Q, x),
         r.status[x] = "failed", NEW y \in DOMAIN w, RoutesTo(w, x, y),
         NEW q, RoutesAs(w, r, q, y)
  PROVE  OwnArms(w, q, Q, x)
<1> SUFFICES ASSUME w[x].cases # {}, Exclusive(w, x), "pruned" \notin q.ends[x]
             PROVE  OneArm(w, q, Q, x)
  BY DEF OwnArms
<1>1. /\ w[x].cases \subseteq DOMAIN w /\ GuardsPrivate(w)
      /\ \A t \in w[x].cases : t # x /\ (w[t].guard # None => w[w[t].guard].kind = "guard")
  BY ExclusiveFacts
<1>2. w[y].kind # "guard"
  BY <1>1 DEF GuardsPrivate
<1>3. \A t \in w[x].cases \ {y} : Away(w, r, x, t, y)
  BY <1>1, <1>2 DEF Away
<1>4. \A t \in w[x].cases \ {y} : Untouched(w, q, Q, x, t)
  BY <1>3, UntouchedRoute DEF Fresh, RoutesAs
<1>5. y # x => q.status[x] = "failed"
  BY DEF RoutesAs, Record
<1> QED BY <1>1, <1>4, <1>5 DEF OneArm

\* A retry, at once or later.
LEMMA ActStatus ==
  ASSUME NEW w \in Workflows, NEW r, NEW Q, NEW x \in DOMAIN w, Acting(w, r, Q, x),
         NEW st \in {"pending", "suspended"}, NEW q, SetsTo(w, r, q, x, st)
  PROVE  Lands(w, r, q, Q, x)
<1>1. r \in Record(w) /\ Along(w, r, r, Q, x) /\ Active(r, x)
  BY AlongSelf DEF Acting
<1>2. Along(w, r, q, Q, x)
  BY <1>1, AlongStatus DEF Acting, Begun
<1>3. OwnArms(w, q, Q, x)
  BY <1>1, OwnFresh, FreshStatus DEF Acting
<1>4. q.status[x] = st
  BY <1>1 DEF SetsTo, Record
<1> QED BY <1>2, <1>3, <1>4, AlongLands

\* A failure that is out of retries.
LEMMA ActFailed ==
  ASSUME NEW w \in Workflows, NEW r, NEW Q, NEW x \in DOMAIN w, Acting(w, r, Q, x),
         NEW st \in {"failed", "timeout"}, st = "timeout" => w[x].kind # "switch"
  PROVE  Lands(w, r, Failed(w, r, x, st), Q, x)
<1> DEFINE e == End(r, x, st)
<1>0. r \in Record(w) /\ Along(w, r, r, Q, x) /\ Active(r, x) /\ st \in Statuses
  BY AlongSelf DEF Acting, Statuses
<1>1. EndsAs(w, r, e, x, st)
  BY <1>0, EndFields
<1>2. Failed(w, r, x, st) =
        IF st = "timeout" /\ w[x].onTimeout # None THEN Route(e, w[x].onTimeout)
        ELSE CASE w[x].onError = "fail" -> Finish(e, "failed")
               [] w[x].onError = "continue" ->
                    [e EXCEPT !.status[x] = "done", !.ends[x] = @ \union {"done"}]
               [] OTHER -> Route(e, w[x].onError)
  BY DEF Failed
<1> HIDE DEF e
<1>3. e \in Record(w) /\ e.status[x] = st
  BY <1>0, <1>1 DEF EndsAs, Record
<1>4. Along(w, r, e, Q, x)
  BY <1>0, <1>1, AlongEnd DEF Begun
<1>5. w[x].kind = "switch" => Fresh(w, e, Q, x)
  BY <1>0, <1>1, FreshEnd DEF Acting
<1>6. /\ w[x].onError \in {"fail", "continue"} \union DOMAIN w
      /\ w[x].onTimeout \in {None} \union DOMAIN w /\ (w[x].cases # {} => w[x].kind = "switch")
  BY Loaded DEF Plainly
<1>7. CASE st = "timeout" /\ w[x].onTimeout # None
  <2> DEFINE y == w[x].onTimeout
             q == Route(e, y)
  <2>1. y \in DOMAIN w /\ RoutesTo(w, x, y)
    BY <1>6, <1>7 DEF RoutesTo
  <2>2. RoutesAs(w, e, q, y)
    BY <1>3, <2>1, RouteFields
  <2> HIDE DEF q, y
  <2>3. Along(w, r, q, Q, x)
    BY <1>0, <1>4, <2>1, <2>2, AlongRoute
  <2>4. OwnArms(w, q, Q, x) /\ w[x].kind # "switch"
    BY <1>6, <1>7 DEF OwnArms
  <2>5. Lands(w, r, q, Q, x)
    BY <2>3, <2>4, AlongLands
  <2> QED BY <1>2, <1>7, <2>5 DEF q, y
<1>8. CASE ~(st = "timeout" /\ w[x].onTimeout # None)
  <2>1. CASE w[x].onError = "fail"
    <3>1. FinishesAs(w, e, Finish(e, "failed"), "failed")
      BY <1>3, FinishFields DEF Outcomes
    <3>2. OwnArms(w, e, Q, x)
      BY <1>5, OwnFresh
    <3>3. w[x].kind = "switch" => e.status[x] \notin {"running", "skipped", "timeout"}
      BY <1>3
    <3>4. Lands(w, r, Finish(e, "failed"), Q, x)
      BY <1>0, <1>4, <3>1, <3>2, <3>3, AlongFinish DEF Declared
    <3> QED BY <1>2, <1>8, <2>1, <3>4
  <2>2. CASE w[x].onError = "continue"
    <3> DEFINE q == [e EXCEPT !.status[x] = "done", !.ends[x] = @ \union {"done"}]
    <3>1. EndsAs(w, e, q, x, "done")
      BY <1>3 DEF EndsAs, Record, Statuses
    <3>2. w[x].kind # "guard"
      BY <2>2, Loaded DEF Plainly, Guarding, WellGuarded
    <3> HIDE DEF q
    <3>3. Active(e, x) /\ e.status[x] # "done"
      BY <1>3 DEF Active
    <3>4. Along(w, r, q, Q, x)
      BY <1>0, <1>4, <3>1, <3>2, <3>3, AlongEnd
    <3>5. OwnArms(w, q, Q, x)
      BY <2>2, ExclusiveFacts DEF OwnArms
    <3>6. q.status[x] = "done"
      BY <1>3, <3>1 DEF EndsAs, Record
    <3>7. Lands(w, r, q, Q, x)
      BY <3>4, <3>5, <3>6, AlongLands
    <3> QED BY <1>2, <1>8, <2>2, <3>7 DEF q
  <2>3. CASE w[x].onError \notin {"fail", "continue"}
    <3> DEFINE y == w[x].onError
               q == Route(e, y)
    <3>1. y \in DOMAIN w /\ RoutesTo(w, x, y)
      BY <1>6, <2>3 DEF RoutesTo
    <3>2. RoutesAs(w, e, q, y)
      BY <1>3, <3>1, RouteFields
    <3> HIDE DEF q, y
    <3>3. Along(w, r, q, Q, x)
      BY <1>0, <1>4, <3>1, <3>2, AlongRoute
    <3>4. OwnArms(w, q, Q, x)
      <4>1. CASE w[x].kind = "switch"
        BY <4>1, <1>3, <1>5, <3>1, <3>2, FreshRoute
      <4>2. CASE w[x].kind # "switch"
        BY <4>2, <1>6 DEF OwnArms
      <4> QED BY <4>1, <4>2
    <3>5. q.status[x] = "pending" \/ q.status[x] = st
      BY <1>3, <3>1, <3>2 DEF RoutesAs, Record
    <3>6. Lands(w, r, q, Q, x)
      BY <3>3, <3>4, <3>5, AlongLands
    <3> QED BY <1>2, <1>8, <2>3, <3>6 DEF q, y
  <2> QED BY <2>1, <2>2, <2>3
<1> QED BY <1>7, <1>8

LEMMA ActFailures ==
  ASSUME NEW w \in Workflows, NEW r, NEW Q, NEW x \in DOMAIN w, Acting(w, r, Q, x),
         NEW st \in {"failed", "timeout"}, st = "timeout" => w[x].kind # "switch",
         NEW q \in Failures(w, r, x, st)
  PROVE  Lands(w, r, q, Q, x)
<1>0. r \in Record(w)
  BY DEF Acting
<1>1. /\ SetsTo(w, r, [r EXCEPT !.status[x] = "pending"], x, "pending")
      /\ SetsTo(w, r, [r EXCEPT !.status[x] = "suspended"], x, "suspended")
  BY <1>0, StatusFields DEF Statuses
<1>2. CASE q = [r EXCEPT !.status[x] = "pending"]
  BY <1>1, <1>2, ActStatus
<1>3. CASE q = Suspend(r, x)
  BY <1>1, <1>3, ActStatus DEF Suspend
<1>4. CASE q = Failed(w, r, x, st)
  BY <1>4, ActFailed
<1> QED BY <1>2, <1>3, <1>4 DEF Failures, Retried, AtOnce

\* A step that is not a switch or a guard succeeds.
LEMMA ActEnd ==
  ASSUME NEW w \in Workflows, NEW r, NEW Q, NEW x \in DOMAIN w, Acting(w, r, Q, x),
         w[x].kind \notin {"guard", "switch"}
  PROVE  /\ Along(w, r, End(r, x, "done"), Q, x) /\ OwnArms(w, End(r, x, "done"), Q, x)
         /\ Lands(w, r, End(r, x, "done"), Q, x)
<1> DEFINE q == End(r, x, "done")
<1>0. r \in Record(w) /\ Along(w, r, r, Q, x) /\ Active(r, x) /\ "done" \in Statuses
  BY AlongSelf DEF Acting, Statuses
<1>1. EndsAs(w, r, q, x, "done")
  BY <1>0, EndFields
<1> HIDE DEF q
<1>2. Along(w, r, q, Q, x)
  BY <1>0, <1>1, AlongEnd DEF Begun
<1>3. OwnArms(w, q, Q, x)
  BY Loaded DEF Plainly, OwnArms
<1> QED BY <1>2, <1>3, AlongLands DEF q

\* An answer that comes from outside; the list is empty.
LEMMA ActAnswers ==
  ASSUME NEW w \in Workflows, NEW r, NEW x \in DOMAIN w, Acting(w, r, {}, x),
         w[x].kind # "switch", NEW q \in Answers(w, r, x)
  PROVE  Lands(w, r, q, {}, x)
<1>1. CASE w[x].kind # "guard"
  BY <1>1, ActEnd DEF Answers
<1>2. CASE w[x].kind = "guard"
  <2>1. PICK h \in BOOLEAN : q = [End(r, x, "done") EXCEPT !.holds[x] = h,
                                                          !.asked = @ \union Guarding(w, x)]
    BY <1>2 DEF Answers
  <2>2. r \in Record(w) /\ Along(w, r, r, {}, x) /\ Active(r, x)
    BY AlongSelf DEF Acting
  <2>3. AnswersAs(w, r, q, x)
    BY <2>1, <2>2, AnswerFields
  <2>4. Along(w, r, q, {}, x)
    BY <2>2, <2>3, AlongAnswer
  <2>5. OwnArms(w, q, {}, x)
    BY <1>2, Loaded DEF Plainly, OwnArms
  <2> QED BY <2>4, <2>5, <1>2, AlongLands
<1> QED BY <1>1, <1>2

\* The switch ends with all its arms pruned but the one it has chosen.
RestPruned(w, r, q, x, c) ==
  \A t \in w[x].cases \ {c} : /\ q.forced[t] = r.forced[t]
                              /\ r.status[t] = "pending" => q.status[t] = "pruned"
                              /\ r.status[t] = "pruned" => q.status[t] = "pruned"

ChosenArm(w, r, q, x, c) ==
  q.status[x] = "done" /\ q.attempt = r.attempt /\ RestPruned(w, r, q, x, c)

LEMMA OwnChosen ==
  ASSUME NEW w \in Workflows, NEW r \in Record(w), Sound(w, r), ~Over(r), NEW Q,
         NEW x \in DOMAIN w, Fresh(w, r, Q, x), NEW q, r.ends[x] \subseteq q.ends[x],
         NEW c, ChosenArm(w, r, q, x, c),
         c \in w[x].cases \/ \A t \in w[x].cases : ChosenArm(w, r, q, x, t)
  PROVE  OwnArms(w, q, Q, x)
<1> SUFFICES ASSUME w[x].cases # {}, Exclusive(w, x), "pruned" \notin q.ends[x]
             PROVE  OneArm(w, q, Q, x)
  BY DEF OwnArms
<1>0. w[x].cases \subseteq DOMAIN w
  BY ExclusiveFacts
<1>1. \A t \in w[x].cases : Untouched(w, r, Q, x, t) /\ r.status[t] # "cancelled"
  BY <1>0 DEF Fresh, Sound, CancelledAtEnd
<1>2. ASSUME NEW a \in w[x].cases, ChosenArm(w, r, q, x, a) PROVE OneArm(w, q, Q, x)
  <2>1. \A t \in w[x].cases \ {a} : Untouched(w, q, Q, x, t)
    BY <1>0, <1>1, <1>2 DEF ChosenArm, RestPruned, Untouched
  <2> QED BY <1>2, <2>1 DEF OneArm, ChosenArm
<1> QED BY <1>2

LEMMA ActSwitch ==
  ASSUME NEW w \in Workflows, NEW r, NEW Q, NEW x \in DOMAIN w, Acting(w, r, Q, x),
         w[x].kind = "switch", r.attempt[x] > 0, r.status[x] = "running",
         NEW q \in SwitchEnds(w, r, x)
  PROVE  Lands(w, r, q, Q, x)
<1>0. /\ r \in Record(w) /\ Along(w, r, r, Q, x) /\ w[x].cases \subseteq DOMAIN w
      /\ Sound(w, r) /\ ~Over(r) /\ Fresh(w, r, Q, x) /\ "done" \in Statuses
  BY AlongSelf, Loaded DEF Acting, Plainly, Statuses
<1>1. ASSUME NEW e, Along(w, r, e, Q, x), e.status[x] # "done", q = End(e, x, "done"),
             r.ends[x] \subseteq e.ends[x],
             NEW c \in w[x].cases \union {None}, RestPruned(w, r, e, x, c)
      PROVE  Lands(w, r, q, Q, x)
  <2>1. e \in Record(w) /\ e.attempt = r.attempt
    BY <1>1 DEF Along
  <2>2. EndsAs(w, e, q, x, "done") /\ Active(e, x)
    BY <1>0, <1>1, <2>1, EndFields DEF Active
  <2>3. Along(w, r, q, Q, x)
    BY <1>0, <1>1, <2>2, AlongEnd
  <2>4. /\ q.status[x] = "done" /\ r.ends[x] \subseteq q.ends[x] /\ q.attempt = r.attempt
        /\ q.forced = e.forced /\ \A t \in DOMAIN w \ {x} : q.status[t] = e.status[t]
    BY <1>1, <2>1, <2>2 DEF EndsAs, Record
  <2>5. ChosenArm(w, r, q, x, c)
    BY <1>0, <1>1, <2>4 DEF ChosenArm, RestPruned
  <2>6. None \notin w[x].cases
    BY <1>0, Loaded DEF Plainly
  <2>7. c = None => \A t \in w[x].cases : ChosenArm(w, r, q, x, t)
    BY <2>5, <2>6 DEF ChosenArm, RestPruned
  <2>8. OwnArms(w, q, Q, x)
    BY <1>0, <1>1, <2>4, <2>5, <2>7, OwnChosen
  <2> QED BY <2>3, <2>4, <2>8, AlongLands
<1>2. ASSUME NEW A \in SUBSET w[x].cases
      PROVE  /\ Along(w, r, Pruned(r, A), Q, x) /\ Pruned(r, A) \in Record(w)
             /\ Pruned(r, A).status[x] = "running" /\ r.ends[x] \subseteq Pruned(r, A).ends[x]
             /\ Pruned(r, A).forced = r.forced
             /\ \A t \in A : r.status[t] = "pending" => Pruned(r, A).status[t] = "pruned"
             /\ \A t \in DOMAIN w : r.status[t] = "pruned" => Pruned(r, A).status[t] = "pruned"
  <2>1. PrunesAs(w, r, Pruned(r, A), A)
    BY <1>0, <1>2, PrunedFields
  <2>2. Along(w, r, Pruned(r, A), Q, x)
    BY <1>0, <1>2, <2>1, AlongPruned
  <2> QED BY <1>0, <1>2, <2>1, <2>2 DEF PrunesAs, Record
<1>3. CASE q = End(Pruned(r, w[x].cases), x, "done")
  <2> DEFINE e == Pruned(r, w[x].cases)
  <2>1. /\ Along(w, r, e, Q, x) /\ e.status[x] # "done" /\ r.ends[x] \subseteq e.ends[x]
        /\ q = End(e, x, "done")
        /\ RestPruned(w, r, e, x, None)
    BY <1>0, <1>2, <1>3 DEF RestPruned
  <2> HIDE DEF e
  <2> QED BY <1>1, <2>1
<1>4. ASSUME NEW c \in w[x].cases, q = End(Route(Pruned(r, w[x].cases \ {c}), c), x, "done")
      PROVE  Lands(w, r, q, Q, x)
  <2> DEFINE A == w[x].cases \ {c}
             p == Pruned(r, A)
             e == Route(p, c)
  <2>1. /\ Along(w, r, p, Q, x) /\ p \in Record(w)
        /\ p.status[x] = "running" /\ r.ends[x] \subseteq p.ends[x]
        /\ p.forced = r.forced
        /\ \A t \in A : r.status[t] = "pending" => p.status[t] = "pruned"
        /\ \A t \in DOMAIN w : r.status[t] = "pruned" => p.status[t] = "pruned"
    BY <1>2
  <2> HIDE DEF p
  <2>2. RoutesAs(w, p, e, c) /\ RoutesTo(w, x, c) /\ c \in DOMAIN w
    BY <1>0, <1>4, <2>1, RouteFields DEF RoutesTo
  <2>3. q = End(e, x, "done")
    BY <1>4 DEF p
  <2> HIDE DEF e
  <2>4. Along(w, r, e, Q, x)
    BY <1>0, <2>1, <2>2, AlongRoute
  <2>5. /\ e.status[x] # "done" /\ r.ends[x] \subseteq e.ends[x]
        /\ \A t \in DOMAIN w \ {c} : e.forced[t] = r.forced[t] /\ e.status[t] = p.status[t]
    BY <2>1, <2>2 DEF RoutesAs, Record
  <2>6. RestPruned(w, r, e, x, c)
    BY <1>0, <2>1, <2>5 DEF RestPruned
  <2> QED BY <1>1, <2>3, <2>4, <2>5, <2>6
<1> QED BY <1>3, <1>4 DEF SwitchEnds

\* A step that computes in place.
LEMMA ActResults ==
  ASSUME NEW w \in Workflows, NEW r, NEW Q, NEW x \in DOMAIN w, Acting(w, r, Q, x),
         w[x].kind \in {"assign", "switch", "finish", "start"},
         r.attempt[x] > 0, r.status[x] = "running", NEW q \in Results(w, r, x)
  PROVE  Lands(w, r, q, Q, x)
<1>1. CASE w[x].kind = "switch"
  BY <1>1, ActSwitch DEF Results
<1>2. CASE w[x].kind = "assign"
  BY <1>2, ActEnd DEF Results
<1>3. CASE w[x].kind = "finish"
  <2> DEFINE e == End(r, x, "done")
  <2>1. PICK o \in Declared : q = Finish(e, o)
    BY <1>3 DEF Results
  <2>2. Along(w, r, e, Q, x) /\ OwnArms(w, e, Q, x) /\ r \in Record(w)
    BY <1>3, ActEnd DEF Acting
  <2> HIDE DEF e
  <2>3. FinishesAs(w, e, q, o)
    BY <2>1, <2>2, FinishFields DEF Along, Outcomes, Declared
  <2> QED BY <1>3, <2>2, <2>3, AlongFinish
<1>4. CASE w[x].kind = "start"
  BY <1>4 DEF Results
<1> QED BY <1>1, <1>2, <1>3, <1>4

---------------------------------------------------------------------------
(* The topological order has every step once.                              *)

LEMMA TopoOrderFacts ==
  ASSUME NEW w \in Workflows
  PROVE  TopoOrder(w) \in Seq(DOMAIN w) /\ Range(TopoOrder(w)) = DOMAIN w
<1> DEFINE n == Len(Ids) * Len(Ids)
           T == Seq(DOMAIN w)
           id(i) == Ids[((i - 1) % Len(Ids)) + 1]
           Walk(o, s) == IF s \in DOMAIN w \ Range(o) /\ w[s].deps \subseteq Range(o)
                         THEN Append(o, s) ELSE o
           E(f) == [i \in 0 .. Len(Ids) * Len(Ids) |->
                      IF i = 0 THEN << >>
                      ELSE LET o == f[i - 1]
                               s == Ids[((i - 1) % Len(Ids)) + 1]
                           IN IF s \in DOMAIN w \ Range(o) /\ w[s].deps \subseteq Range(o)
                              THEN Append(o, s) ELSE o]
           out == CHOOSE f : f = E(f)
           F == [i \in 0 .. n |-> [o \in T |-> IF i = 0 THEN o ELSE Walk(o, id(i))]]
<1>1. TopoOrder(w) = out[n]
  BY DEF TopoOrder
<1>2. n \in Nat /\ << >> \in T
  <2>1. Len(Ids) \in Nat
    BY GraphAssumption, LenProperties
  <2> QED BY <2>1
<1>3. \A o \in T : \A s : Walk(o, s) \in T
  BY AppendProperties
<1>4. F \in [0 .. n -> [T -> T]]
  <2> HIDE DEF T, Walk, n, id
  <2> QED BY <1>3
<1>5. \A f : E(f) = [i \in 0 .. n |-> IF i = 0 THEN << >> ELSE Walk(f[i - 1], id(i))]
  OBVIOUS
<1> HIDE DEF n, T, id, Walk, E, out, F
<1>6. PICK f : f \in [0 .. n -> T] /\ f[0] = << >> /\ \A i \in 1 .. n : f[i] = F[i][f[i - 1]]
  <2>1. \E f : Computes(f, n, T, << >>, F)
    BY <1>2, <1>4, Iteration
  <2> QED BY <2>1 DEF Computes
<1>7. \A i \in 1 .. n : f[i] = Walk(f[i - 1], id(i))
  <2> TAKE i \in 1 .. n
  <2>1. f[i - 1] \in T /\ i \in 0 .. n /\ i # 0
    BY <1>2, <1>6
  <2> QED BY <1>6, <2>1 DEF F
<1>8. f = E(f)
  BY <1>2, <1>5, <1>6, <1>7
<1>9. out = E(out)
  BY <1>8 DEF out
<1>10. /\ out[0] = << >>
       /\ \A i \in 1 .. n : out[i] = Walk(out[i - 1], id(i))
  BY <1>2, <1>5, <1>9
<1> DEFINE K == {i \in 0 .. n : out[i] \in T /\ IsInjective(out[i])}
<1>11. 0 \in K
  BY <1>2, <1>10 DEF IsInjective
<1>12. \A i \in 0 .. n : i \in K /\ i < n => i + 1 \in K
  <2> SUFFICES ASSUME NEW i \in 0 .. n, i \in K, i < n PROVE i + 1 \in K
    OBVIOUS
  <2>1. i + 1 \in 1 .. n /\ (i + 1) - 1 = i /\ i + 1 \in 0 .. n
    BY <1>2
  <2>2. out[i + 1] = Walk(out[i], id(i + 1))
    BY <1>10, <2>1
  <2>3. out[i] \in Seq(DOMAIN w) /\ IsInjective(out[i])
    BY DEF T
  <2> DEFINE o == out[i]
             s == id(i + 1)
  <2> HIDE DEF o, s
  <2>4. Walk(o, s) \in Seq(DOMAIN w) /\ IsInjective(Walk(o, s))
    <3>1. o \in Seq(DOMAIN w) /\ IsInjective(o)
      BY <2>3 DEF o
    <3>2. CASE s \in DOMAIN w \ Range(o)
      BY <3>1, <3>2, AppendProperties, AppendFresh DEF Walk
    <3>3. CASE s \notin DOMAIN w \ Range(o)
      BY <3>1, <3>3 DEF Walk
    <3> QED BY <3>2, <3>3
  <2> QED BY <2>1, <2>2, <2>4 DEF o, s, T
<1>13. n \in K
  <2> HIDE DEF K
  <2>1. 0 .. n \subseteq K
    BY <1>2, <1>11, <1>12, Induct
  <2> QED BY <1>2, <2>1
<1> DEFINE o == TopoOrder(w)
<1>14. o \in Seq(DOMAIN w) /\ IsInjective(o)
  BY <1>1, <1>13 DEF T
<1>15. Len(o) = Cardinality(DOMAIN w)
  BY GraphAssumption DEF Valid
<1> HIDE DEF o
<1>16. Len(o) \in Nat /\ DOMAIN o = 1 .. Len(o) /\ o \in [1 .. Len(o) -> DOMAIN w]
  BY <1>14, LenProperties
<1>17. o \in Injection(1 .. Len(o), DOMAIN w)
  BY <1>14, <1>16 DEF Injection, IsInjective
<1>18. IsFiniteSet(DOMAIN w) /\ Cardinality(1 .. Len(o)) = Len(o)
  BY <1>16, FiniteSteps, FS_Interval
<1>19. o \in Surjection(1 .. Len(o), DOMAIN w)
  BY <1>15, <1>17, <1>18, FS_Injection
<1>20. Range(o) = DOMAIN w
  BY <1>16, <1>19 DEF Surjection, Range
<1> QED BY <1>14, <1>20 DEF o

---------------------------------------------------------------------------
(* What the pass decides of a step.                                        *)

LEMMA VerdictFacts ==
  ASSUME NEW w, NEW r \in Record(w), NEW s \in DOMAIN w, NEW yes
  PROVE  LET v == Verdict(w, yes, r, s) IN
         /\ v \in {"ask", "ready", "wait", "prune"}
         /\ v = "ask" => r.forced[s] /\ w[s].guard # None
         /\ v = "ready" =>
              \/ r.forced[s] /\ w[s].guard = None
              \/ /\ ~r.forced[s] /\ ~IsParked(w, s) /\ ~AllPruned(w, r, s)
                 /\ DepsOk(w, r, s) /\ GuardHolds(w, r, s)
         /\ v = "wait" =>
              /\ ~r.forced[s] /\ \A t \in Guarding(w, s) : ~Terminal(r.status[t])
              /\ \/ IsParked(w, s) /\ ~Unreached(w, r, Parked(w, s))
                 \/ ~DepsOk(w, r, s)
         /\ v = "prune" =>
              \/ r.forced[s] /\ w[s].guard = None /\ w[s].when
              \/ ~r.forced[s] /\ \E t \in Guarding(w, s) : Terminal(r.status[t])
              \/ /\ ~r.forced[s]
                 /\ IsParked(w, s) \/ AllPruned(w, r, s) \/
                    (DepsOk(w, r, s) /\ (w[s].when \/ ~GuardHolds(w, r, s)))
<1> DEFINE v == Verdict(w, yes, r, s)
           when == w[s].when => s \in yes
<1>1. r.forced[s] \in BOOLEAN
  BY DEF Record
<1>2. CASE r.forced[s]
  <2>1. v = IF w[s].guard # None THEN "ask" ELSE IF when THEN "ready" ELSE "prune"
    BY <1>2 DEF Verdict
  <2> HIDE DEF v
  <2> QED BY <1>2, <2>1 DEF v
<1>3. CASE ~r.forced[s] /\ \E t \in Guarding(w, s) : Terminal(r.status[t])
  <2>1. v = "prune"
    BY <1>3 DEF Verdict
  <2> HIDE DEF v
  <2> QED BY <1>3, <2>1 DEF v
<1>4. CASE ~r.forced[s] /\ ~(\E t \in Guarding(w, s) : Terminal(r.status[t]))
  <2>0. \A t \in Guarding(w, s) : ~Terminal(r.status[t])
    BY <1>4
  <2>1. CASE IsParked(w, s)
    <3>1. v = IF Unreached(w, r, Parked(w, s)) THEN "prune" ELSE "wait"
      BY <1>4, <2>1 DEF Verdict
    <3> HIDE DEF v
    <3> QED BY <1>4, <2>0, <2>1, <3>1 DEF v
  <2>2. CASE ~IsParked(w, s) /\ AllPruned(w, r, s)
    <3>1. v = "prune"
      BY <1>4, <2>2 DEF Verdict
    <3> HIDE DEF v
    <3> QED BY <1>4, <2>2, <3>1 DEF v
  <2>3. CASE ~IsParked(w, s) /\ ~AllPruned(w, r, s) /\ ~DepsOk(w, r, s)
    <3>1. v = "wait"
      BY <1>4, <2>3 DEF Verdict
    <3> HIDE DEF v
    <3> QED BY <1>4, <2>0, <2>3, <3>1 DEF v
  <2>4. CASE ~IsParked(w, s) /\ ~AllPruned(w, r, s) /\ DepsOk(w, r, s)
    <3>1. v = IF when /\ GuardHolds(w, r, s) THEN "ready" ELSE "prune"
      BY <1>4, <2>4 DEF Verdict
    <3> HIDE DEF v
    <3> QED BY <1>4, <2>4, <3>1 DEF v
  <2> QED BY <2>1, <2>2, <2>3, <2>4
<1> QED BY <1>1, <1>2, <1>3, <1>4

\* A step without dependencies is a start node, or is reached by an edge only.
LEMMA ParkedAlone ==
  ASSUME NEW w \in Workflows, GuardsPrivate(w), NEW s \in DOMAIN w, w[s].deps = {},
         w[s].kind # "start"
  PROVE  IsParked(w, s)
<1>1. ({s} \union Guarding(w, s)) \intersect TimeoutTargets(w) # {}
  BY GraphAssumption DEF Valid, Starts
<1>2. CASE Guarding(w, s) = {}
  BY <1>1, <1>2 DEF IsParked, Parked
<1>3. CASE Guarding(w, s) # {}
  <2>1. PICK t \in DOMAIN w : w[t].guard = s
    BY <1>3 DEF Guarding
  <2>2. s # None /\ w[t].guard # None
    BY <2>1, Loaded DEF Plainly
  <2>3. Guarding(w, s) = {t} /\ w[s].kind = "guard"
    BY <2>1, <2>2, Loaded DEF WellGuarded
  <2>4. s \notin TimeoutTargets(w)
    <3> SUFFICES ASSUME NEW y \in DOMAIN w, w[y].onTimeout = s PROVE FALSE
      BY DEF TimeoutTargets
    <3> QED BY <2>3 DEF GuardsPrivate, RoutesTo
  <2>5. t \in TimeoutTargets(w)
    BY <1>1, <2>3, <2>4
  <2>6. (CHOOSE u \in {t} : TRUE) = t
    OBVIOUS
  <2>7. Parked(w, s) = t
    BY <2>3, <2>6 DEF Parked
  <2> QED BY <2>5, <2>7 DEF IsParked
<1> QED BY <1>2, <1>3

\* A step the pass finds ready is not early, and its guard has said yes.
LEMMA ReadyVerdict ==
  ASSUME NEW w \in Workflows, NEW r \in Record(w), Sound(w, r), NEW s \in DOMAIN w, NEW yes,
         r.status[s] = "pending", Verdict(w, yes, r, s) = "ready", GuardsPrivate(w)
  PROVE  Early(w, r, s) /\ Guarded(w, r, s)
<1>1. CASE r.forced[s] /\ w[s].guard = None
  BY <1>1 DEF Sound, MarkFromEdge, Early, Guarded
<1>2. CASE /\ ~r.forced[s] /\ ~IsParked(w, s) /\ ~AllPruned(w, r, s)
           /\ DepsOk(w, r, s) /\ GuardHolds(w, r, s)
  <2>1. w[s].kind # "start"
    BY <1>2 DEF Sound, StartsOver, Terminal
  <2>2. w[s].deps # {} /\ w[s].deps \subseteq DOMAIN w
    BY <1>2, <2>1, ParkedAlone, Loaded DEF Plainly
  <2>3. \A d \in w[s].deps : r.status[d] \in {"done", "skipped", "pruned"}
    BY <1>2 DEF DepsOk, Satisfied
  <2>4. \A d \in w[s].deps : r.status[d] \in r.ends[d]
    BY <2>2, <2>3 DEF Sound, EndsKnown
  <2>5. PICK d \in w[s].deps : r.status[d] # "pruned"
    BY <1>2, <2>2 DEF AllPruned
  <2>6. r.ends[d] \intersect {"done", "skipped"} # {}
    BY <2>3, <2>4, <2>5
  <2>7. Early(w, r, s)
    BY <2>4, <2>6 DEF Early
  <2>8. Guarded(w, r, s)
    BY <1>2 DEF Guarded, GuardHolds, Sound, AskedAbout
  <2> QED BY <2>7, <2>8
<1> QED BY <1>1, <1>2, VerdictFacts

\* It is no untouched arm, nor the guard of one.
LEMMA ReadyArm ==
  ASSUME NEW w \in Workflows, NEW r \in Record(w), Sound(w, r), SwitchAtOnce(w, r),
         NEW x \in DOMAIN w, NEW yes, r.status[x] = "pending", Verdict(w, yes, r, x) = "ready",
         NEW Q, NEW s \in DOMAIN w, w[s].cases # {}, Exclusive(w, s), "pruned" \notin r.ends[s],
         NEW t \in w[s].cases, Untouched(w, r, Q, s, t)
  PROVE  Untouched(w, r, Q \union {x}, s, t)
<1>1. /\ w[s].kind = "switch" /\ t \in DOMAIN w
      /\ w[t].guard = None => s \in w[t].deps
      /\ w[t].guard # None => /\ w[t].guard \in DOMAIN w /\ w[w[t].guard].guard = None
                              /\ s \in w[w[t].guard].deps
  BY ExclusiveFacts
<1>2. CASE r.status[s] = "done"
  BY <1>2 DEF Untouched
<1>3. CASE r.status[s] # "done"
  <2>1. r.status[s] \notin {"done", "skipped", "pruned"}
    BY <1>1, <1>3 DEF SwitchAtOnce, Sound, EndsKnown
  <2>2. x # t
    <3> SUFFICES ASSUME x = t PROVE FALSE
      OBVIOUS
    <3>1. ~r.forced[t] /\ (w[t].guard # None => r.status[w[t].guard] # "done")
      BY <1>3 DEF Untouched
    <3>2. DepsOk(w, r, t) /\ GuardHolds(w, r, t)
      BY <3>1, VerdictFacts
    <3> QED BY <1>1, <2>1, <3>1, <3>2 DEF DepsOk, GuardHolds, Satisfied
  <2>3. ASSUME w[t].guard # None PROVE x # w[t].guard
    <3> DEFINE g == w[t].guard
    <3> SUFFICES ASSUME x = g PROVE FALSE
      OBVIOUS
    <3>1. ~r.forced[g]
      BY <1>3, <2>3 DEF Untouched
    <3>2. DepsOk(w, r, g)
      BY <3>1, VerdictFacts
    <3> QED BY <1>1, <2>1, <2>3, <3>2 DEF DepsOk, Satisfied
  <2> QED BY <1>3, <2>2, <2>3 DEF Untouched
<1> QED BY <1>2, <1>3

---------------------------------------------------------------------------
(* What the pass keeps, r0 being the record it began with.                 *)

Passes(w) == [run : Record(w), ready : Seq(DOMAIN w), changed : BOOLEAN]

\* A step to be replayed as routed, with no condition and a guard that held,
\* is still to be run: its guard holds, or is marked to be asked.
ReplaysHold(w, r0, r) ==
  \A s \in r0.replaying \intersect r0.routed :
    r0.status[s] # "pruned" /\ ~w[s].when /\ GuardHolds(w, r0, s) =>
      /\ r.status[s] # "pruned"
      /\ w[s].guard # None =>
           LET g == w[s].guard IN
           \/ r.status[g] = "done" /\ r.holds[g]
           \/ r.status[g] = "pending" /\ r.forced[g]

Passing(w, r0, p) ==
  /\ p \in Passes(w) /\ IsInjective(p.ready)
  /\ p.run.attempt = r0.attempt /\ p.run.outcome = r0.outcome
  /\ Follows(w, r0, p.run) /\ Sound(w, p.run) /\ SwitchAtOnce(w, p.run)
  /\ ReadySound(w, p.run, Range(p.ready)) /\ ArmsSound(w, p.run, Range(p.ready))
  /\ ReplaysHold(w, r0, p.run)

LEMMA VisitReady ==
  ASSUME NEW w \in Workflows, NEW r0 \in Record(w), NEW p, Passing(w, r0, p), NEW s \in DOMAIN w,
         NEW yes, p.run.status[s] = "pending", s \notin Range(p.ready),
         Verdict(w, yes, p.run, s) = "ready"
  PROVE  Passing(w, r0, [p EXCEPT !.ready = Append(@, s)])
<1> DEFINE q == [p EXCEPT !.ready = Append(@, s)]
<1>1. /\ p \in Passes(w) /\ p.run \in Record(w) /\ p.ready \in Seq(DOMAIN w) /\ IsInjective(p.ready)
      /\ Sound(w, p.run) /\ SwitchAtOnce(w, p.run)
  BY DEF Passing, Passes
<1>2. /\ Append(p.ready, s) \in Seq(DOMAIN w) /\ IsInjective(Append(p.ready, s))
      /\ Range(Append(p.ready, s)) = Range(p.ready) \union {s}
  BY <1>1, AppendRange, AppendFresh
<1>3. q \in Passes(w) /\ q.run = p.run /\ q.ready = Append(p.ready, s)
  BY <1>1, <1>2 DEF Passes
<1>4. ReadySound(w, p.run, Range(p.ready) \union {s})
  BY <1>1, ReadyVerdict DEF Passing, ReadySound
<1>5. ArmsSound(w, p.run, Range(p.ready) \union {s})
  <2> SUFFICES ASSUME NEW x \in DOMAIN w, w[x].cases # {}, Exclusive(w, x),
                      "pruned" \notin p.run.ends[x]
               PROVE  OneArm(w, p.run, Range(p.ready) \union {s}, x)
    BY DEF ArmsSound
  <2>1. OneArm(w, p.run, Range(p.ready), x)
    BY DEF Passing, ArmsSound
  <2>2. \A t \in w[x].cases : Untouched(w, p.run, Range(p.ready), x, t) =>
                                Untouched(w, p.run, Range(p.ready) \union {s}, x, t)
    BY <1>1, ReadyArm
  <2> QED BY <2>1, <2>2, OneArmKept
<1> HIDE DEF q
<1>6. Passing(w, r0, q)
  BY <1>2, <1>3, <1>4, <1>5 DEF Passing
<1> QED BY <1>6 DEF q

LEMMA VisitPrune ==
  ASSUME NEW w \in Workflows, NEW r0 \in Record(w), NEW p, Passing(w, r0, p), NEW s \in DOMAIN w,
         NEW yes, p.run.status[s] = "pending", s \notin Range(p.ready),
         Verdict(w, yes, p.run, s) = "prune"
  PROVE  Passing(w, r0, [p EXCEPT !.run = End(@, s, "pruned"), !.changed = TRUE])
<1> DEFINE e == End(p.run, s, "pruned")
           q == [p EXCEPT !.run = e, !.changed = TRUE]
           Q == Range(p.ready)
<1>1. /\ p \in Passes(w) /\ p.run \in Record(w) /\ Sound(w, p.run) /\ SwitchAtOnce(w, p.run)
      /\ Q \in SUBSET DOMAIN w /\ "pruned" \in Statuses \ {"cancelled"} /\ Terminal("pruned")
  BY RangeType DEF Passing, Passes, Statuses, Terminal
<1>2. EndsAs(w, p.run, e, s, "pruned")
  BY <1>1, EndFields
<1>3. q = [p EXCEPT !.run = End(@, s, "pruned"), !.changed = TRUE]
  OBVIOUS
<1> HIDE DEF e
<1>4. /\ e \in Record(w) /\ e.attempt = p.run.attempt /\ e.outcome = p.run.outcome
      /\ e.status[s] = "pruned" /\ e.forced = p.run.forced /\ e.holds = p.run.holds
      /\ \A t \in DOMAIN w \ {s} : e.status[t] = p.run.status[t]
  BY <1>1, <1>2 DEF EndsAs, Record
<1>5. q \in Passes(w) /\ q.run = e /\ q.ready = p.ready
  BY <1>1, <1>4 DEF Passes
<1>6. Follows(w, r0, e)
  <2>1. Follows(w, p.run, e)
    BY <1>1, <1>2, FollowsEnd
  <2> QED BY <1>1, <1>4, <2>1, FollowsTrans DEF Passing
<1>7. Sound(w, e)
  BY <1>1, <1>2, SoundEnd
<1>8. SwitchAtOnce(w, e)
  BY <1>1, <1>4 DEF SwitchAtOnce
<1>9. ReadySound(w, e, Q)
  BY <1>1, <1>2, ReadyEnd DEF Passing
<1>10. ArmsSound(w, e, Q)
  BY <1>1, <1>2, ArmsPrune DEF Passing
<1>11. ReplaysHold(w, r0, e)
  <2> SUFFICES ASSUME NEW x \in r0.replaying \intersect r0.routed, r0.status[x] # "pruned",
                      ~w[x].when, GuardHolds(w, r0, x)
               PROVE  /\ e.status[x] # "pruned"
                      /\ w[x].guard # None =>
                           \/ e.status[w[x].guard] = "done" /\ e.holds[w[x].guard]
                           \/ e.status[w[x].guard] = "pending" /\ e.forced[w[x].guard]
    BY DEF ReplaysHold
  <2>1. /\ x \in DOMAIN w /\ p.run.status[x] # "pruned" /\ x \in p.run.routed
        /\ w[x].guard # None =>
             \/ p.run.status[w[x].guard] = "done" /\ p.run.holds[w[x].guard]
             \/ p.run.status[w[x].guard] = "pending" /\ p.run.forced[w[x].guard]
    BY DEF Passing, ReplaysHold, Record, Follows
  <2>2. CASE w[x].guard = None
    <3>1. p.run.forced[x]
      BY <1>1, <2>1, <2>2 DEF Sound, MarkStays
    <3>2. x # s
      BY <1>1, <2>2, <3>1, VerdictFacts
    <3> QED BY <1>4, <2>1, <2>2, <3>2
  <2>3. CASE w[x].guard # None
    <3> DEFINE g == w[x].guard
    <3>1. /\ g \in DOMAIN w /\ w[x].deps = {g} /\ Guarding(w, x) = {} /\ ~w[g].when
      BY <2>1, <2>3, GuardOf DEF WellGuarded
    <3>2. x # s
      <4> SUFFICES ASSUME x = s PROVE FALSE
        OBVIOUS
      <4>1. ~p.run.forced[x]
        BY <1>1, <2>3, VerdictFacts
      <4>2. IsParked(w, x) \/ AllPruned(w, p.run, x) \/
              (DepsOk(w, p.run, x) /\ ~GuardHolds(w, p.run, x))
        BY <1>1, <3>1, <4>1, VerdictFacts
      <4> QED BY <2>1, <2>3, <3>1, <4>2 DEF IsParked, AllPruned, DepsOk, GuardHolds, Satisfied
    <3>3. g # s
      <4> SUFFICES ASSUME g = s PROVE FALSE
        OBVIOUS
      <4>1. p.run.forced[g]
        BY <2>1, <2>3
      <4> QED BY <1>1, <3>1, <4>1, VerdictFacts
    <3> QED BY <1>4, <2>1, <2>3, <3>1, <3>2, <3>3
  <2> QED BY <2>2, <2>3
<1> HIDE DEF q
<1>12. Passing(w, r0, q)
  BY <1>4, <1>5, <1>6, <1>7, <1>8, <1>9, <1>10, <1>11 DEF Passing
<1> QED BY <1>3, <1>12

LEMMA VisitAsk ==
  ASSUME NEW w \in Workflows, NEW r0 \in Record(w), NEW p, Passing(w, r0, p), NEW s \in DOMAIN w,
         NEW yes, p.run.status[s] = "pending", s \notin Range(p.ready),
         Verdict(w, yes, p.run, s) = "ask"
  PROVE  Passing(w, r0, [p EXCEPT !.run = AskGuard(w, @, s), !.changed = TRUE])
<1> DEFINE e == AskGuard(w, p.run, s)
           q == [p EXCEPT !.run = e, !.changed = TRUE]
           Q == Range(p.ready)
           g == w[s].guard
<1>1. /\ p \in Passes(w) /\ p.run \in Record(w) /\ Sound(w, p.run) /\ SwitchAtOnce(w, p.run)
      /\ Q \in SUBSET DOMAIN w
  BY RangeType DEF Passing, Passes
<1>2. p.run.forced[s] /\ g # None
  BY <1>1, VerdictFacts
<1>3. g \in DOMAIN w /\ w[g].kind = "guard" /\ w[g].guard = None
  BY <1>2, GuardOf DEF WellGuarded
<1>4. AsksAs(w, p.run, e, s)
  BY <1>1, <1>3, AskFields
<1>5. q = [p EXCEPT !.run = AskGuard(w, @, s), !.changed = TRUE]
  OBVIOUS
<1> HIDE DEF e
<1>6. /\ e \in Record(w) /\ e.attempt = p.run.attempt /\ e.outcome = p.run.outcome
      /\ e.holds = p.run.holds
  BY <1>4 DEF AsksAs
<1>7. /\ \A t \in DOMAIN w \ {s, g} : e.forced[t] = p.run.forced[t]
      /\ \A t \in DOMAIN w \ {g} : e.status[t] = p.run.status[t]
      /\ p.run.status[g] \notin {"running", "suspended"} => e.status[g] = "pending" /\ e.forced[g]
  BY <1>1, <1>2, <1>4, AskElsewhere
<1>8. q \in Passes(w) /\ q.run = e /\ q.ready = p.ready
  BY <1>1, <1>6 DEF Passes
<1> HIDE DEF q
<1>9. Follows(w, r0, e)
  <2>1. Follows(w, p.run, e)
    BY <1>1, <1>3, <1>4, FollowsAsk
  <2> QED BY <1>1, <1>6, <2>1, FollowsTrans DEF Passing
<1>10. Sound(w, e)
  BY <1>1, <1>2, <1>4, SoundAsk
<1>11. SwitchAtOnce(w, e)
  BY <1>1, <1>3, <1>7 DEF SwitchAtOnce
<1>12. ReadySound(w, e, Q)
  BY <1>1, <1>2, <1>4, ReadyAsk DEF Passing
<1>13. ArmsSound(w, e, Q)
  BY <1>1, <1>2, <1>4, ArmsAsk DEF Passing
<1>14. ReplaysHold(w, r0, e)
  <2> SUFFICES ASSUME NEW x \in r0.replaying \intersect r0.routed, r0.status[x] # "pruned",
                      ~w[x].when, GuardHolds(w, r0, x)
               PROVE  /\ e.status[x] # "pruned"
                      /\ w[x].guard # None =>
                           \/ e.status[w[x].guard] = "done" /\ e.holds[w[x].guard]
                           \/ e.status[w[x].guard] = "pending" /\ e.forced[w[x].guard]
    BY DEF ReplaysHold
  <2>1. /\ x \in DOMAIN w /\ p.run.status[x] # "pruned"
        /\ w[x].guard # None =>
             \/ p.run.status[w[x].guard] = "done" /\ p.run.holds[w[x].guard]
             \/ p.run.status[w[x].guard] = "pending" /\ p.run.forced[w[x].guard]
    BY DEF Passing, ReplaysHold, Record
  <2>2. e.status[g] # "pruned"
    BY <1>1, <1>2, <1>4, AskElsewhere
  <2>3. e.status[x] # "pruned"
    BY <1>7, <2>1, <2>2
  <2>4. ASSUME w[x].guard # None
        PROVE  \/ e.status[w[x].guard] = "done" /\ e.holds[w[x].guard]
               \/ e.status[w[x].guard] = "pending" /\ e.forced[w[x].guard]
    <3>1. w[x].guard \in DOMAIN w /\ w[x].guard # s
      <4>1. w[x].guard \in DOMAIN w /\ w[w[x].guard].guard = None
        BY <2>1, <2>4, GuardOf DEF WellGuarded
      <4> QED BY <1>2, <4>1
    <3> HIDE DEF g
    <3>2. CASE w[x].guard = g
      BY <1>7, <2>1, <2>4, <3>2
    <3>3. CASE w[x].guard # g
      BY <1>6, <1>7, <2>1, <2>4, <3>1, <3>3
    <3> QED BY <3>2, <3>3
  <2> QED BY <2>3, <2>4
<1>15. Passing(w, r0, q)
  BY <1>6, <1>8, <1>9, <1>10, <1>11, <1>12, <1>13, <1>14 DEF Passing
<1> QED BY <1>5, <1>15

LEMMA VisitKeeps ==
  ASSUME NEW w \in Workflows, NEW r0 \in Record(w), NEW p, Passing(w, r0, p), NEW s \in DOMAIN w,
         NEW yes
  PROVE  Passing(w, r0, Visit(w, yes, p, s))
<1> DEFINE v == Verdict(w, yes, p.run, s)
<1>1. p.run \in Record(w)
  BY DEF Passing, Passes
<1>2. v \in {"ask", "ready", "wait", "prune"}
  BY <1>1, VerdictFacts
<1> HIDE DEF v
<1>3. CASE p.run.status[s] # "pending" \/ s \in Range(p.ready)
  BY <1>3 DEF Visit
<1>4. CASE p.run.status[s] = "pending" /\ s \notin Range(p.ready)
  <2>1. CASE v = "wait"
    BY <1>4, <2>1 DEF Visit, v
  <2>2. CASE v = "ready"
    BY <1>4, <2>2, VisitReady DEF Visit, v
  <2>3. CASE v = "prune"
    BY <1>4, <2>3, VisitPrune DEF Visit, v
  <2>4. CASE v = "ask"
    BY <1>4, <2>4, VisitAsk DEF Visit, v
  <2> QED BY <1>2, <2>1, <2>2, <2>3, <2>4
<1> QED BY <1>3, <1>4

---------------------------------------------------------------------------
(* Rounds, and the pass.                                                   *)

\* A round visits every step in order.
LEMMA RoundSteps ==
  ASSUME wf \in Workflows, order \in Seq(S), NEW r0 \in Record(wf), NEW yes, NEW p,
         Passing(wf, r0, p)
  PROVE  \E f : /\ f[0] = [p EXCEPT !.changed = FALSE]
                /\ \A i \in 1 .. Len(order) : f[i] = Visit(wf, yes, f[i - 1], order[i])
                /\ \A i \in 0 .. Len(order) : Passing(wf, r0, f[i])
                /\ Round(yes, p) = f[Len(order)]
<1> DEFINE n == Len(order)
           T == {q \in Passes(wf) : Passing(wf, r0, q)}
           a == [p EXCEPT !.changed = FALSE]
           E(f) == [i \in 0 .. Len(order) |->
                      IF i = 0 THEN [p EXCEPT !.changed = FALSE]
                      ELSE CHOOSE q \in {Visit(wf, yes, before, order[i]) :
                                           before \in {f[i - 1]}} : TRUE]
           upTo == CHOOSE f : f = E(f)
           F == [i \in 0 .. n |-> [q \in T |->
                   IF i = 0 THEN q ELSE Visit(wf, yes, q, order[i])]]
<1>1. Round(yes, p) = upTo[n]
  BY DEF Round
<1>2. n \in Nat /\ a \in T /\ \A i \in 1 .. n : order[i] \in S
  <2>1. p \in Passes(wf)
    BY DEF Passing
  <2>2. a \in Passes(wf) /\ a.run = p.run /\ a.ready = p.ready
    BY <2>1 DEF Passes
  <2> HIDE DEF a
  <2>3. Passing(wf, r0, a)
    BY <2>2 DEF Passing
  <2>4. n \in Nat /\ \A i \in 1 .. n : order[i] \in S
    OBVIOUS
  <2> QED BY <2>2, <2>3, <2>4
<1>3. \A q : q \in T <=> Passing(wf, r0, q)
  BY DEF Passing
<1>4. \A q \in T, s \in S : Visit(wf, yes, q, s) \in T
  <2> HIDE DEF T
  <2> QED BY <1>3, VisitKeeps DEF S
<1> HIDE DEF T
<1>5. F \in [0 .. n -> [T -> T]]
  BY <1>2, <1>4
<1> HIDE DEF F, n, a, E, upTo
<1>6. PICK f : f \in [0 .. n -> T] /\ f[0] = a /\ \A i \in 1 .. n : f[i] = F[i][f[i - 1]]
  <2>1. \E f : Computes(f, n, T, a, F)
    BY <1>2, <1>5, Iteration
  <2> QED BY <2>1 DEF Computes
<1>7. \A i \in 1 .. n : F[i][f[i - 1]] = Visit(wf, yes, f[i - 1], order[i])
  BY <1>2, <1>6 DEF F
<1>8. \A x : (CHOOSE q \in {x} : TRUE) = x
  OBVIOUS
<1>9. \A i \in 1 .. n :
        (CHOOSE q \in {Visit(wf, yes, before, order[i]) : before \in {f[i - 1]}} : TRUE) = f[i]
  <2> TAKE i \in 1 .. n
  <2>1. {Visit(wf, yes, before, order[i]) : before \in {f[i - 1]}} = {f[i]}
    BY <1>6, <1>7
  <2> QED BY <2>1, <1>8
<1>10. f = E(f)
  BY <1>2, <1>6, <1>9 DEF n, a, E
<1>11. upTo = E(upTo)
  BY <1>10 DEF upTo
<1>12. upTo[0] = a
  BY <1>2, <1>11 DEF E, n, a
<1>13. \A i \in 1 .. n : upTo[i] = Visit(wf, yes, upTo[i - 1], order[i])
  <2> TAKE i \in 1 .. n
  <2>1. upTo[i] = CHOOSE q \in {Visit(wf, yes, before, order[i]) :
                                  before \in {upTo[i - 1]}} : TRUE
    <3>1. i \in 0 .. Len(order) /\ i # 0
      BY <1>2 DEF n
    <3>2. upTo[i] = E(upTo)[i]
      BY <1>11
    <3> QED BY <3>1, <3>2, Zenon DEF E
  <2>2. {Visit(wf, yes, before, order[i]) : before \in {upTo[i - 1]}} =
           {Visit(wf, yes, upTo[i - 1], order[i])}
    OBVIOUS
  <2> QED BY <2>1, <2>2, <1>8
<1> DEFINE K == {i \in 0 .. n : upTo[i] \in T}
<1>14. 0 \in K
  BY <1>2, <1>12
<1>15. \A i \in 0 .. n : i \in K /\ i < n => i + 1 \in K
  BY <1>2, <1>4, <1>13
<1>16. 0 .. n \subseteq K
  <2> HIDE DEF K
  <2> QED BY <1>2, <1>14, <1>15, Induct
<1>17. \A i \in 0 .. n : Passing(wf, r0, upTo[i])
  BY <1>3, <1>16
<1> QED BY <1>1, <1>12, <1>13, <1>17 DEF n, a

\* Every step that is pending and not ready waits.
Settled(w, yes, p) ==
  \A s \in DOMAIN w : p.run.status[s] = "pending" /\ s \notin Range(p.ready) =>
    Verdict(w, yes, p.run, s) = "wait"

\* One step of a round that has changed nothing.
LEMMA VisitSettles ==
  ASSUME NEW w \in Workflows, NEW r0 \in Record(w), NEW p, Passing(w, r0, p), NEW s \in DOMAIN w,
         NEW yes, Visit(w, yes, p, s).changed = FALSE
  PROVE  LET q == Visit(w, yes, p, s) IN
         /\ p.changed = FALSE /\ q.run = p.run /\ Range(p.ready) \subseteq Range(q.ready)
         /\ p.run.status[s] = "pending" /\ s \notin Range(q.ready) =>
              Verdict(w, yes, p.run, s) = "wait"
<1> DEFINE v == Verdict(w, yes, p.run, s)
           q == Visit(w, yes, p, s)
<1>1. p \in Passes(w) /\ p.run \in Record(w) /\ p.ready \in Seq(DOMAIN w)
  BY DEF Passing, Passes
<1>2. v \in {"ask", "ready", "wait", "prune"}
  BY <1>1, VerdictFacts
<1> HIDE DEF v
<1>3. CASE p.run.status[s] # "pending" \/ s \in Range(p.ready)
  BY <1>3 DEF Visit
<1>4. CASE p.run.status[s] = "pending" /\ s \notin Range(p.ready)
  <2>1. CASE v = "wait"
    BY <1>4, <2>1 DEF Visit, v
  <2>2. CASE v = "ready"
    <3>1. q = [p EXCEPT !.ready = Append(@, s)]
      BY <1>4, <2>2 DEF Visit, v
    <3>2. q.changed = p.changed /\ q.run = p.run /\ q.ready = Append(p.ready, s)
      BY <1>1, <3>1 DEF Passes
    <3>3. Range(q.ready) = Range(p.ready) \union {s}
      BY <1>1, <3>2, AppendRange
    <3> QED BY <3>2, <3>3
  <2>3. CASE v = "prune"
    <3>1. q = [p EXCEPT !.run = End(@, s, "pruned"), !.changed = TRUE]
      BY <1>4, <2>3 DEF Visit, v
    <3> QED BY <1>1, <3>1 DEF Passes
  <2>4. CASE v = "ask"
    <3>1. q = [p EXCEPT !.run = AskGuard(w, @, s), !.changed = TRUE]
      BY <1>4, <2>4 DEF Visit, v
    <3> QED BY <1>1, <3>1 DEF Passes
  <2> QED BY <1>2, <2>1, <2>2, <2>3, <2>4
<1> QED BY <1>3, <1>4

\* Those of the first i steps of the order that are pending and not ready wait.
SettledTo(yes, p, i) ==
  p.changed = FALSE =>
    \A j \in 1 .. i : p.run.status[order[j]] = "pending" /\ order[j] \notin Range(p.ready) =>
      Verdict(wf, yes, p.run, order[j]) = "wait"

LEMMA SettlesNext ==
  ASSUME wf \in Workflows, NEW r0 \in Record(wf), NEW yes, NEW i \in Nat,
         NEW p, Passing(wf, r0, p), SettledTo(yes, p, i), order[i + 1] \in DOMAIN wf,
         NEW q, q = Visit(wf, yes, p, order[i + 1])
  PROVE  SettledTo(yes, q, i + 1)
<1> SUFFICES ASSUME q.changed = FALSE, NEW j \in 1 .. (i + 1), q.run.status[order[j]] = "pending",
                    order[j] \notin Range(q.ready)
             PROVE  Verdict(wf, yes, q.run, order[j]) = "wait"
  BY DEF SettledTo
<1>1. /\ p.changed = FALSE /\ q.run = p.run /\ Range(p.ready) \subseteq Range(q.ready)
      /\ p.run.status[order[i + 1]] = "pending" /\ order[i + 1] \notin Range(q.ready) =>
           Verdict(wf, yes, p.run, order[i + 1]) = "wait"
  BY VisitSettles
<1>2. CASE j = i + 1
  BY <1>1, <1>2
<1>3. CASE j # i + 1
  <2>1. j \in 1 .. i
    BY <1>3
  <2> QED BY <1>1, <2>1 DEF SettledTo
<1> QED BY <1>2, <1>3

LEMMA RoundSettles ==
  ASSUME wf \in Workflows, order \in Seq(S), Range(order) = S, NEW r0 \in Record(wf), NEW yes,
         NEW p, Passing(wf, r0, p)
  PROVE  /\ Passing(wf, r0, Round(yes, p))
         /\ Round(yes, p).changed = FALSE => Settled(wf, yes, Round(yes, p))
<1> DEFINE n == Len(order)
<1>1. PICK f : /\ f[0] = [p EXCEPT !.changed = FALSE]
               /\ \A i \in 1 .. Len(order) : f[i] = Visit(wf, yes, f[i - 1], order[i])
               /\ \A i \in 0 .. Len(order) : Passing(wf, r0, f[i])
               /\ Round(yes, p) = f[Len(order)]
  BY RoundSteps
<1>2. n \in Nat /\ (\A i \in 1 .. n : order[i] \in S) /\ DOMAIN order = 1 .. n
  OBVIOUS
<1>3. Passing(wf, r0, f[n])
  BY <1>1, <1>2
<1> DEFINE K == {i \in 0 .. n : SettledTo(yes, f[i], i)}
<1>4. 0 \in K
  BY <1>2 DEF SettledTo
<1>5. \A i \in 0 .. n : i \in K /\ i < n => i + 1 \in K
  <2> SUFFICES ASSUME NEW i \in 0 .. n, SettledTo(yes, f[i], i), i < n
               PROVE  i + 1 \in 0 .. n /\ SettledTo(yes, f[i + 1], i + 1)
    OBVIOUS
  <2>1. i + 1 \in 1 .. n /\ (i + 1) - 1 = i /\ i \in Nat
    BY <1>2
  <2>2. /\ f[i + 1] = Visit(wf, yes, f[i], order[i + 1]) /\ Passing(wf, r0, f[i])
        /\ order[i + 1] \in DOMAIN wf
    BY <1>1, <1>2, <2>1 DEF S
  <2> QED BY <2>1, <2>2, SettlesNext
<1>6. SettledTo(yes, f[n], n)
  <2>1. 0 .. n \subseteq K
    <3> HIDE DEF K
    <3> QED BY <1>2, <1>4, <1>5, Induct
  <2> QED BY <1>2, <2>1
<1>7. f[n].changed = FALSE => Settled(wf, yes, f[n])
  <2> SUFFICES ASSUME f[n].changed = FALSE, NEW s \in DOMAIN wf, f[n].run.status[s] = "pending",
                      s \notin Range(f[n].ready)
               PROVE  Verdict(wf, yes, f[n].run, s) = "wait"
    BY DEF Settled
  <2>1. PICK j \in 1 .. n : order[j] = s
    BY <1>2 DEF Range, S
  <2> QED BY <1>6, <2>1 DEF SettledTo
<1> QED BY <1>1, <1>3, <1>7

\* What a pass leaves: all that a round keeps and, when the last round changed
\* nothing, every step that is pending and not ready waits.
Passed(yes, p) ==
  Passing(wf, run, p) /\ (p.changed = FALSE => Settled(wf, yes, p))

LEMMA PassBegins ==
  ASSUME wf \in Workflows, run \in Record(wf), Sound(wf, run), SwitchAtOnce(wf, run),
         ArmsSound(wf, run, {}), NEW yes
  PROVE  Passed(yes, [run |-> run, ready |-> << >>, changed |-> TRUE])
<1> DEFINE a == [run |-> run, ready |-> << >>, changed |-> TRUE]
<1>1. a \in Passes(wf) /\ a.run = run /\ a.ready = << >> /\ a.changed = TRUE
  BY DEF Passes
<1> HIDE DEF a
<1>2. Range(a.ready) = {} /\ IsInjective(a.ready)
  BY <1>1, EmptyRange DEF IsInjective
<1>3. Follows(wf, run, run)
  BY FollowsRefl
<1>4. ReadySound(wf, run, {})
  BY DEF ReadySound
<1>5. ReplaysHold(wf, run, run)
  BY DEF ReplaysHold, GuardHolds
<1>6. Passing(wf, run, a)
  BY <1>1, <1>2, <1>3, <1>4, <1>5 DEF Passing
<1>7. Passed(yes, a)
  BY <1>1, <1>6 DEF Passed
<1> QED BY <1>7 DEF a

PassStep(yes, p) == IF p.changed THEN Round(yes, p) ELSE p

LEMMA PassStepKeeps ==
  ASSUME wf \in Workflows, order \in Seq(S), Range(order) = S, run \in Record(wf), NEW yes,
         NEW p, Passed(yes, p)
  PROVE  Passed(yes, PassStep(yes, p))
<1>1. Passing(wf, run, p)
  BY DEF Passed
<1>2. CASE p.changed
  <2>1. PassStep(yes, p) = Round(yes, p)
    BY <1>2 DEF PassStep
  <2> QED BY <1>1, <2>1, RoundSettles DEF Passed
<1>3. CASE ~p.changed
  BY <1>3 DEF PassStep
<1> QED BY <1>2, <1>3

\* A pass goes from round to round.
LEMMA PassFacts ==
  ASSUME wf \in Workflows, order \in Seq(S), Range(order) = S, run \in Record(wf),
         Sound(wf, run), SwitchAtOnce(wf, run), ArmsSound(wf, run, {}), NEW yes
  PROVE  Passed(yes, Pass(yes))
<1> DEFINE n == 2 * Len(order) + 1
           T == {q \in Passes(wf) : Passed(yes, q)}
           a == [run |-> run, ready |-> << >>, changed |-> TRUE]
           E(f) == [i \in 0 .. 2 * Len(order) + 1 |->
                      IF i = 0 THEN [run |-> run, ready |-> << >>, changed |-> TRUE]
                      ELSE CHOOSE p \in {IF before.changed THEN Round(yes, before) ELSE before :
                                           before \in {f[i - 1]}} : TRUE]
           rounds == CHOOSE f : f = E(f)
           F == [i \in 0 .. n |-> [q \in T |-> IF i = 0 THEN q ELSE PassStep(yes, q)]]
<1>1. Pass(yes) = rounds[n]
  BY DEF Pass
<1>2. n \in Nat /\ a \in T
  <2>1. Passed(yes, a)
    BY PassBegins
  <2>2. a \in Passes(wf)
    BY DEF Passes
  <2>3. n \in Nat
    OBVIOUS
  <2> HIDE DEF a, n
  <2> QED BY <2>1, <2>2, <2>3
<1>3. \A q : q \in T <=> Passed(yes, q)
  BY DEF Passed, Passing
<1>4. \A q \in T : PassStep(yes, q) \in T
  <2> HIDE DEF T
  <2> QED BY <1>3, PassStepKeeps
<1> HIDE DEF T
<1>5. F \in [0 .. n -> [T -> T]]
  BY <1>2, <1>4
<1> HIDE DEF F, n, a, E, rounds
<1>6. PICK f : f \in [0 .. n -> T] /\ f[0] = a /\ \A i \in 1 .. n : f[i] = F[i][f[i - 1]]
  <2>1. \E f : Computes(f, n, T, a, F)
    BY <1>2, <1>5, Iteration
  <2> QED BY <2>1 DEF Computes
<1>7. \A i \in 1 .. n : F[i][f[i - 1]] = PassStep(yes, f[i - 1])
  BY <1>2, <1>6 DEF F
<1>8. \A x : (CHOOSE q \in {x} : TRUE) = x
  OBVIOUS
<1>9. \A g : {IF before.changed THEN Round(yes, before) ELSE before : before \in {g}} =
                {PassStep(yes, g)}
  BY DEF PassStep
<1>10. \A i \in 1 .. n : (CHOOSE p \in {IF before.changed THEN Round(yes, before) ELSE before :
                                          before \in {f[i - 1]}} : TRUE) = f[i]
  BY <1>6, <1>7, <1>8, <1>9
<1>11. f = E(f)
  BY <1>2, <1>6, <1>10 DEF n, a, E
<1>12. rounds = E(rounds)
  BY <1>11 DEF rounds
<1>13. rounds[0] = a
  BY <1>2, <1>12 DEF E, n, a
<1>14. \A i \in 1 .. n : rounds[i] = PassStep(yes, rounds[i - 1])
  <2> TAKE i \in 1 .. n
  <2>1. rounds[i] = CHOOSE p \in {IF before.changed THEN Round(yes, before) ELSE before :
                                    before \in {rounds[i - 1]}} : TRUE
    <3>1. i \in 0 .. 2 * Len(order) + 1 /\ i # 0
      BY <1>2 DEF n
    <3>2. rounds[i] = E(rounds)[i]
      BY <1>12
    <3> QED BY <3>1, <3>2, Zenon DEF E
  <2> QED BY <2>1, <1>8, <1>9
<1> DEFINE K == {i \in 0 .. n : rounds[i] \in T}
<1>15. 0 \in K
  BY <1>2, <1>13
<1>16. \A i \in 0 .. n : i \in K /\ i < n => i + 1 \in K
  BY <1>2, <1>4, <1>14
<1>17. 0 .. n \subseteq K
  <2> HIDE DEF K
  <2> QED BY <1>2, <1>15, <1>16, Induct
<1> QED BY <1>1, <1>2, <1>3, <1>17

---------------------------------------------------------------------------
(* A run that stalls.                                                      *)

\* Where every pending step waits and nothing runs or has failed, the pending
\* steps wait for one another.
LEMMA WaitersWait ==
  ASSUME NEW w \in Workflows, NEW r \in Record(w), NEW yes,
         \A s \in DOMAIN w : r.status[s] = "pending" => Verdict(w, yes, r, s) = "wait",
         \A s \in DOMAIN w : r.status[s] \notin {"running", "suspended"},
         \A s \in DOMAIN w : ~Unsuccessful(r.status[s]),
         NEW s0 \in DOMAIN w, r.status[s0] = "pending"
  PROVE  WaitsInCircle(w)
<1> DEFINE C == {s \in DOMAIN w : r.status[s] = "pending"}
<1>1. C \in (SUBSET DOMAIN w) \ {{}}
  OBVIOUS
<1>2. \A s \in DOMAIN w : r.status[s] \in {"done", "skipped", "pruned", "pending"}
  BY DEF Record, Statuses, Unsuccessful
<1>3. \A s \in C : \E d \in C : d \in w[s].deps \/ (IsParked(w, s) /\ RoutesTo(w, d, Parked(w, s)))
  <2> SUFFICES ASSUME NEW s \in DOMAIN w, r.status[s] = "pending"
               PROVE  \E d \in C : d \in w[s].deps \/ (IsParked(w, s) /\ RoutesTo(w, d, Parked(w, s)))
    OBVIOUS
  <2>1. /\ ~r.forced[s] /\ \A t \in Guarding(w, s) : ~Terminal(r.status[t])
        /\ \/ IsParked(w, s) /\ ~Unreached(w, r, Parked(w, s))
           \/ ~DepsOk(w, r, s)
    BY VerdictFacts
  <2>2. CASE ~DepsOk(w, r, s)
    <3>1. PICK d \in w[s].deps : ~Satisfied(r.status[d]) /\ r.status[d] # "pruned"
      BY <2>2 DEF DepsOk
    <3>2. d \in DOMAIN w
      BY Loaded DEF Plainly
    <3> QED BY <1>2, <3>1, <3>2 DEF Satisfied
  <2>3. CASE IsParked(w, s) /\ ~Unreached(w, r, Parked(w, s))
    <3>1. ~r.forced[Parked(w, s)]
      <4>1. CASE Guarding(w, s) = {}
        BY <2>1, <4>1 DEF Parked
      <4>2. CASE Guarding(w, s) # {}
        <5>1. Parked(w, s) \in Guarding(w, s)
          BY <4>2 DEF Parked
        <5>2. Parked(w, s) \in DOMAIN w /\ ~Terminal(r.status[Parked(w, s)])
          BY <2>1, <5>1 DEF Guarding
        <5>3. r.status[Parked(w, s)] = "pending"
          BY <1>2, <5>2 DEF Terminal
        <5>4. Verdict(w, yes, r, Parked(w, s)) = "wait"
          BY <5>2, <5>3
        <5> QED BY <5>2, <5>4, VerdictFacts
      <4> QED BY <4>1, <4>2
    <3>2. PICK d \in DOMAIN w : RoutesTo(w, d, Parked(w, s)) /\ ~Terminal(r.status[d])
      BY <2>3, <3>1 DEF Unreached
    <3> QED BY <1>2, <2>3, <3>2 DEF Terminal
  <2> QED BY <2>1, <2>2, <2>3
<1> HIDE DEF C
<1> QED BY <1>1, <1>3 DEF WaitsInCircle

\* So nothing is left where it stalls.
LEMMA StalledEnds ==
  ASSUME NEW w \in Workflows, NEW r \in Record(w), NEW yes,
         \A s \in DOMAIN w : r.status[s] = "pending" => Verdict(w, yes, r, s) = "wait",
         \A s \in DOMAIN w : r.status[s] \notin {"running", "suspended"},
         \A s \in DOMAIN w : ~Unsuccessful(r.status[s]),
         ~WaitsInCircle(w), NEW q, FinishesAs(w, r, q, "stalled")
  PROVE  \A s \in DOMAIN w : q.status[s] # "cancelled"
<1>1. \A s \in DOMAIN w : r.status[s] # "pending"
  BY WaitersWait
<1>2. \A s \in DOMAIN w : r.status[s] # "cancelled" /\ Terminal(r.status[s])
  BY <1>1 DEF Record, Statuses, Terminal, Unsuccessful
<1> QED BY <1>2 DEF FinishesAs

---------------------------------------------------------------------------
(* The invariant: the initial state.                                       *)

\* A new run is at its start node.
LEMMA NewRunFacts ==
  ASSUME NEW w \in Workflows, NEW fired \in Starts(w)
  PROVE  LET r == NewRun(w, fired) IN
         /\ r \in Record(w) /\ r.outcome = "live" /\ r.routed = {} /\ r.replaying = {}
         /\ \A s \in DOMAIN w :
              /\ ~r.forced[s]
              /\ r.status[s] = IF s = fired THEN "done"
                               ELSE IF w[s].kind = "start" THEN "skipped" ELSE "pending"
              /\ w[s].kind # "start" => r.attempt[s] = 0
              /\ Terminal(r.status[s]) => r.status[s] \in r.ends[s]
<1> DEFINE status == [s \in DOMAIN w |->
                        IF s = fired THEN "done"
                        ELSE IF s \in Starts(w) THEN "skipped" ELSE "pending"]
           ends == [s \in DOMAIN w |-> IF Terminal(status[s]) THEN {status[s]} ELSE {}]
           attempt == [s \in DOMAIN w |-> IF s = fired THEN 1 ELSE 0]
           no == [s \in DOMAIN w |-> FALSE]
<1>1. NewRun(w, fired) =
        [status |-> status, forced |-> no, holds |-> no, attempt |-> attempt, count |-> 0,
         outcome |-> "live", ends |-> ends, routed |-> {}, asked |-> {}, replaying |-> {}]
  BY DEF NewRun
<1>2. fired \in DOMAIN w /\ w[fired].kind = "start"
  BY DEF Starts
<1>3. /\ status \in [DOMAIN w -> Statuses] /\ no \in [DOMAIN w -> BOOLEAN]
      /\ attempt \in [DOMAIN w -> Nat]
  BY DEF Statuses
<1>4. /\ ends \in [DOMAIN w -> SUBSET Statuses]
      /\ \A s \in DOMAIN w : Terminal(status[s]) => status[s] \in ends[s]
  <2> HIDE DEF status
  <2> QED BY <1>3
<1>5. \A s \in DOMAIN w :
        /\ ~no[s]
        /\ status[s] = IF s = fired THEN "done"
                       ELSE IF w[s].kind = "start" THEN "skipped" ELSE "pending"
        /\ w[s].kind # "start" => attempt[s] = 0
  BY <1>2 DEF Starts
<1> HIDE DEF status, ends, attempt, no
<1>6. NewRun(w, fired) \in Record(w)
  BY <1>1, <1>3, <1>4 DEF Record, Outcomes
<1> QED BY <1>1, <1>4, <1>5, <1>6

LEMMA NewRunSound ==
  ASSUME NEW w \in Workflows, NEW fired \in Starts(w)
  PROVE  LET r == NewRun(w, fired) IN
         Sound(w, r) /\ SwitchAtOnce(w, r) /\ ArmsSound(w, r, {})
<1> DEFINE r == NewRun(w, fired)
<1>1. /\ r \in Record(w) /\ r.outcome = "live" /\ r.routed = {} /\ r.replaying = {}
      /\ \A s \in DOMAIN w :
           /\ ~r.forced[s]
           /\ r.status[s] = IF s = fired THEN "done"
                            ELSE IF w[s].kind = "start" THEN "skipped" ELSE "pending"
           /\ w[s].kind # "start" => r.attempt[s] = 0
           /\ Terminal(r.status[s]) => r.status[s] \in r.ends[s]
  BY NewRunFacts
<1>2. fired \in DOMAIN w /\ w[fired].kind = "start"
  BY DEF Starts
<1> HIDE DEF r
<1>3. Sound(w, r)
  <2>1. AskedAbout(w, r)
    <3> SUFFICES ASSUME NEW t \in DOMAIN w, w[t].guard # None, r.status[w[t].guard] = "done"
                 PROVE  FALSE
      BY DEF AskedAbout
    <3>1. w[t].guard \in DOMAIN w /\ w[w[t].guard].kind = "guard"
      BY Loaded DEF WellGuarded
    <3> QED BY <1>1, <1>2, <3>1
  <2>2. MarkFromEdge(w, r) /\ MarkStays(w, r)
    BY <1>1 DEF MarkFromEdge, MarkStays
  <2>3. EndsKnown(w, r)
    BY <1>1 DEF EndsKnown, Terminal
  <2>4. StartsOver(w, r)
    BY <1>1 DEF StartsOver, Terminal
  <2>5. CancelledAtEnd(w, r)
    BY <1>1 DEF CancelledAtEnd
  <2> QED BY <2>1, <2>2, <2>3, <2>4, <2>5 DEF Sound
<1>4. SwitchAtOnce(w, r)
  BY <1>1, <1>2 DEF SwitchAtOnce
<1>5. ArmsSound(w, r, {})
  <2> SUFFICES ASSUME NEW s \in DOMAIN w, w[s].cases # {}, Exclusive(w, s)
               PROVE  OneArm(w, r, {}, s)
    BY DEF ArmsSound
  <2>1. /\ w[s].kind = "switch" /\ w[s].cases \subseteq DOMAIN w
        /\ \A t \in w[s].cases : /\ w[t].guard = None => s \in w[t].deps
                                 /\ w[t].guard # None => /\ w[t].guard \in DOMAIN w
                                                         /\ w[w[t].guard].kind = "guard"
    BY ExclusiveFacts
  <2>2. r.status[s] = "pending"
    BY <1>1, <1>2, <2>1
  <2>3. \A t \in w[s].cases : w[t].kind # "start"
    BY <2>1, Loaded DEF Plainly, WellGuarded
  <2>4. \A t \in w[s].cases : Untouched(w, r, {}, s, t)
    BY <1>1, <1>2, <2>1, <2>2, <2>3 DEF Untouched
  <2> QED BY <2>4 DEF OneArm
<1> QED BY <1>3, <1>4, <1>5 DEF r

LEMMA Initially ==
  ASSUME Init
  PROVE  TypeOK /\ IInv
<1>1. wf \in Workflows /\ order = TopoOrder(wf) /\ saved = run /\ queue = << >> /\
      flight = [s \in S |-> 0] /\ crashes = 0
  BY DEF Init
<1>2. PICK fired \in Starts(wf) : run = NewRun(wf, fired)
  BY DEF Init
<1>3. /\ run \in Record(wf) /\ run.outcome = "live" /\ Sound(wf, run) /\ SwitchAtOnce(wf, run)
      /\ ArmsSound(wf, run, {})
  BY <1>1, <1>2, NewRunFacts, NewRunSound
<1>4. order \in Seq(S) /\ Range(order) = S
  BY <1>1, TopoOrderFacts DEF S
<1>5. queue \in Seq(S) /\ IsInjective(queue) /\ Range(queue) = {}
  BY <1>1, EmptyRange DEF IsInjective
<1>6. TypeOK
  BY <1>1, <1>3, <1>4, <1>5, GraphAssumption DEF TypeOK
<1>7. Lagging /\ Stopped /\ StalledMeansExhausted
  BY <1>1, <1>3 DEF Lagging, Stopped, StalledMeansExhausted, Over, Record, S
<1>8. ReadySound(wf, run, Range(queue)) /\ \A s \in S : flight[s] = 0
  BY <1>1, <1>5 DEF ReadySound
<1>9. \A s \in S : flight[s] > 0 => run.attempt[s] > 0 /\ s \notin run.replaying
  BY <1>8
<1>10. /\ ArmsSound(wf, run, Range(queue)) /\ ArmsSound(wf, saved, {})
       /\ Sound(wf, saved) /\ SwitchAtOnce(wf, saved)
  BY <1>1, <1>3, <1>5
<1> QED BY <1>3, <1>4, <1>6, <1>7, <1>8, <1>9, <1>10 DEF IInv

---------------------------------------------------------------------------
(* The invariant: the steps.                                               *)

\* Only the head of the ready list starts.
StartsHead == \A s \in S : Starting(s) => s \in Range(queue)

\* The step property that ReplayedAsRouted states.
AsRouted ==
  \A s \in run.replaying \intersect run.routed :
    run.status[s] # "pruned" /\ run'.status[s] = "pruned" =>
      \/ wf[s].when \/ ~GuardHolds(wf, run, s)
      \/ \E x \in S : s \in wf[x].cases /\ Starting(x)

\* What a step has to leave: the record r, with the list `rest' still to run.
Left(r, rest) ==
  /\ r \in Record(wf) /\ Sound(wf, r) /\ SwitchAtOnce(wf, r)
  /\ rest \in Seq(S) /\ IsInjective(rest)
  /\ Over(r) \/ ReadySound(wf, r, Range(rest))
  /\ ArmsSound(wf, r, Range(rest))
  /\ Over(r) => \A s \in S : Terminal(r.status[s])
  /\ r.outcome = "stalled" /\ ~WaitsInCircle(wf) => \A s \in S : r.status[s] # "cancelled"

\* Only work that leaves the process, and that this life has started, is in flight.
Flying(r, out) ==
  /\ out \in [S -> Nat]
  /\ \A s \in S : out[s] > 0 =>
       wf[s].kind \in {"effect", "guard"} /\ r.attempt[s] > 0 /\ s \notin r.replaying

\* A checkpoint is of the record the step leaves, or an earlier one.
Keeps(r) == saved' = r \/ (saved' = saved /\ Follows(wf, run, r))

LEMMA Reached ==
  ASSUME TypeOK, IInv, ~Over(run), NEW r, NEW rest, NEW out, Left(r, rest), Flying(r, out),
         Keeps(r), Becomes(r, rest, out), UNCHANGED <<wf, order>>, crashes' \in 0 .. MaxCrashes
  PROVE  TypeOK' /\ IInv'
<1>1. /\ run' = r /\ queue' = (IF Over(r) THEN << >> ELSE rest)
      /\ flight' = (IF Over(r) THEN [s \in S |-> 0] ELSE out)
  BY DEF Becomes
<1>2. wf' = wf /\ order' = order /\ S' = S
  BY DEF S
<1>3. queue' \in Seq(S) /\ IsInjective(queue') /\ Range(queue') \subseteq Range(rest)
      /\ (Over(r) => Range(queue') = {} /\ queue' = << >>) /\ (~Over(r) => queue' = rest)
  <2>1. CASE Over(r)
    BY <1>1, <2>1, EmptyRange DEF IsInjective
  <2>2. CASE ~Over(r)
    BY <1>1, <2>2 DEF Left
  <2> QED BY <2>1, <2>2
<1>4. Flying(r, flight') /\ (Over(r) => \A s \in S : flight'[s] = 0)
  BY <1>1 DEF Flying
<1>5. saved' \in Record(wf) /\ Sound(wf, saved') /\ SwitchAtOnce(wf, saved')
      /\ ArmsSound(wf, saved', {})
  <2>1. wf \in Workflows /\ saved \in Record(wf)
    BY DEF TypeOK
  <2>2. CASE saved' = r
    <3>1. ArmsSound(wf, r, {})
      BY <2>1, ArmsFewer DEF Left
    <3> QED BY <2>2, <3>1 DEF Left
  <2>3. CASE saved' = saved
    BY <2>1, <2>3 DEF IInv
  <2> QED BY <2>2, <2>3 DEF Keeps
<1>6. TypeOK'
  BY <1>1, <1>2, <1>3, <1>4, <1>5 DEF TypeOK, Left, Flying
<1>7. Lagging'
  <2>1. r \in Record(wf) /\ run \in Record(wf) /\ saved \in Record(wf)
    BY DEF Left, TypeOK
  <2>2. CASE saved' = r
    BY <1>1, <1>2, <2>1, <2>2 DEF Lagging, S, Record
  <2>3. CASE saved' = saved /\ Follows(wf, run, r)
    <3>1. /\ \A s \in S : saved.attempt[s] <= run.attempt[s]
          /\ \A s \in run.replaying : saved.status[s] = "pruned" => run.status[s] = "pruned"
          /\ ~Over(saved)
      BY DEF IInv, Lagging
    <3>2. /\ \A s \in S : run.attempt[s] <= r.attempt[s]
          /\ r.replaying \subseteq run.replaying
          /\ \A s \in r.replaying : run.status[s] = "pruned" => r.status[s] = "pruned"
      BY <2>3 DEF Follows, S
    <3>3. \A s \in S : saved.attempt[s] \in Nat /\ run.attempt[s] \in Nat /\ r.attempt[s] \in Nat
      BY <2>1 DEF Record, S
    <3>4. \A s \in S : saved.attempt[s] <= r.attempt[s]
      BY <3>1, <3>2, <3>3
    <3> QED BY <1>1, <1>2, <2>3, <3>1, <3>2, <3>4 DEF Lagging, Over
  <2> QED BY <2>2, <2>3 DEF Keeps
<1>8. Stopped' /\ StalledMeansExhausted'
  BY <1>1, <1>2, <1>3, <1>4 DEF Stopped, StalledMeansExhausted, Left, Over
<1>9. ReadySound(wf, r, Range(queue')) /\ ArmsSound(wf, r, Range(queue'))
  <2>1. ArmsSound(wf, r, Range(queue'))
    BY <1>3, ArmsFewer DEF Left, TypeOK
  <2>2. CASE Over(r)
    BY <1>3, <2>1, <2>2 DEF ReadySound
  <2>3. CASE ~Over(r)
    BY <1>3, <2>1, <2>3 DEF Left
  <2> QED BY <2>2, <2>3
<1>10. \A s \in S : flight'[s] > 0 => r.attempt[s] > 0 /\ s \notin r.replaying
  BY <1>4 DEF Flying
<1>11. Range(order) = S
  BY DEF IInv
<1>12. Sound(wf, r) /\ SwitchAtOnce(wf, r)
  BY DEF Left
<1> QED BY <1>1, <1>2, <1>5, <1>6, <1>7, <1>8, <1>9, <1>10, <1>11, <1>12 DEF IInv

StepOk == TypeOK' /\ IInv' /\ StartsHead /\ AsRouted

\* The facts a step begins with.
LEMMA Before ==
  ASSUME TypeOK, IInv
  PROVE  /\ wf \in Workflows /\ S = DOMAIN wf /\ run \in Record(wf) /\ saved \in Record(wf)
         /\ Sound(wf, run) /\ SwitchAtOnce(wf, run) /\ Flying(run, flight)
         /\ queue = << >> => ArmsSound(wf, run, {})
         /\ \A s \in S : run.attempt[s] \in Nat
BY EmptyRange DEF TypeOK, IInv, Flying, S, Record

\* A record with the same attempts starts nothing; one that prunes nothing
\* keeps the routed.
LEMMA NothingStarts ==
  ASSUME TypeOK, IInv, run'.attempt = run.attempt
  PROVE  StartsHead
<1>1. \A s \in S : run.attempt[s] \in Nat
  BY Before
<1> QED BY <1>1 DEF StartsHead, Starting

LEMMA NothingPruned ==
  ASSUME TypeOK, IInv, NonePruned(wf, run, run')
  PROVE  AsRouted
<1>1. run.replaying \subseteq DOMAIN wf
  BY Before DEF Record
<1> QED BY <1>1 DEF AsRouted, NonePruned

\* The run ends, and no list is left.
LEMMA FinishLeft ==
  ASSUME wf \in Workflows, NEW r \in Record(wf), Sound(wf, r), SwitchAtOnce(wf, r),
         ArmsSound(wf, r, {}), NEW o \in Outcomes \ {"live"},
         o = "stalled" /\ ~WaitsInCircle(wf) =>
           \A s \in S : Finish(r, o).status[s] # "cancelled"
  PROVE  /\ FinishesAs(wf, r, Finish(r, o), o) /\ Left(Finish(r, o), << >>)
         /\ Over(Finish(r, o)) /\ NonePruned(wf, r, Finish(r, o))
<1> DEFINE q == Finish(r, o)
<1>1. FinishesAs(wf, r, q, o)
  BY FinishFields
<1> HIDE DEF q
<1>2. q \in Record(wf) /\ q.outcome = o /\ Over(q)
  BY <1>1 DEF FinishesAs, Over
<1>3. Sound(wf, q)
  BY <1>1, SoundFinish
<1>4. SwitchAtOnce(wf, q) /\ \A s \in S : Terminal(q.status[s])
  BY <1>1 DEF SwitchAtOnce, FinishesAs, Terminal, S
<1>5. ArmsSound(wf, q, {})
  BY <1>1, ArmsFinish
<1>6. << >> \in Seq(S) /\ IsInjective(<< >>) /\ Range(<< >>) = {}
  BY EmptyRange DEF IsInjective
<1>7. NonePruned(wf, r, q)
  BY <1>1, FollowsFinish
<1>8. o = "stalled" /\ ~WaitsInCircle(wf) => \A s \in S : q.status[s] # "cancelled"
  BY DEF q
<1>9. Left(q, << >>)
  BY <1>2, <1>3, <1>4, <1>5, <1>6, <1>8 DEF Left
<1> QED BY <1>1, <1>2, <1>7, <1>9 DEF q

LEMMA StopsOk ==
  ASSUME TypeOK, IInv, ~Over(run), queue = << >>, NEW o \in Declared,
         Becomes(Finish(run, o), << >>, flight), saved' = run', UNCHANGED <<wf, order, crashes>>
  PROVE  StepOk
<1> DEFINE q == Finish(run, o)
<1>1. FinishesAs(wf, run, q, o) /\ Left(q, << >>) /\ NonePruned(wf, run, q)
  BY Before, FinishLeft DEF Outcomes, Declared
<1> HIDE DEF q
<1>2. Becomes(q, << >>, flight) /\ run' = q /\ saved' = q
  BY DEF Becomes, q
<1>3. q.attempt = run.attempt /\ q.replaying = run.replaying
  BY <1>1 DEF FinishesAs
<1>4. Flying(q, flight)
  BY <1>3, Before DEF Flying
<1>5. Keeps(q)
  BY <1>2 DEF Keeps
<1>6. crashes' \in 0 .. MaxCrashes
  BY DEF TypeOK
<1>7. TypeOK' /\ IInv'
  BY <1>1, <1>2, <1>4, <1>5, <1>6, Reached
<1>8. StartsHead /\ AsRouted
  BY <1>1, <1>2, <1>3, NothingStarts, NothingPruned
<1> QED BY <1>7, <1>8 DEF StepOk

\* The step s, whose answer, failure or retry the reactor applies between passes.
LEMMA AppliedOk ==
  ASSUME TypeOK, IInv, ~Over(run), queue = << >>, NEW s \in S, NEW q, Lands(wf, run, q, {}, s),
         NonePruned(wf, run, q), NEW out, Flying(run, out), Becomes(q, << >>, out),
         Checkpointed(s), run.status[s] = "pruned" => s \notin run.replaying,
         UNCHANGED <<wf, order, crashes>>
  PROVE  StepOk
<1>1. run' = q
  BY DEF Becomes
<1>2. q.attempt = run.attempt /\ q.replaying \subseteq run.replaying
  BY DEF Lands
<1>3. << >> \in Seq(S) /\ IsInjective(<< >>) /\ Range(<< >>) = {}
  BY EmptyRange DEF IsInjective
<1>4. ReadySound(wf, q, {})
  BY DEF ReadySound
<1>5. Left(q, << >>)
  BY <1>3, <1>4 DEF Left, Lands, Declared, Over, S
<1>6. Flying(q, out)
  BY <1>2 DEF Flying
<1>7. Keeps(q)
  <2>1. CASE saved' = run'
    BY <1>1, <2>1 DEF Keeps
  <2>2. CASE run' = AtOnce(run, s) /\ saved' = saved
    <3>0. /\ q = [run EXCEPT !.status[s] = "pending"] /\ run \in Record(wf) /\ s \in DOMAIN wf
          /\ "pending" \in Statuses \ {"pruned"}
      BY <1>1, <2>2, Before DEF AtOnce, Statuses
    <3>1. SetsTo(wf, run, q, s, "pending")
      BY <3>0, StatusFields
    <3>2. Follows(wf, run, q)
      BY <3>0, <3>1, FollowsStatus
    <3> QED BY <2>2, <3>2 DEF Keeps
  <2> QED BY <2>1, <2>2 DEF Checkpointed
<1>8. crashes' \in 0 .. MaxCrashes
  BY DEF TypeOK
<1>9. TypeOK' /\ IInv'
  BY <1>5, <1>6, <1>7, <1>8, Reached
<1>10. StartsHead /\ AsRouted
  BY <1>1, <1>2, NothingStarts, NothingPruned
<1> QED BY <1>9, <1>10 DEF StepOk

\* Only a switch prunes.
LEMMA LandsPlain ==
  ASSUME NEW w \in Workflows, NEW r, NEW q, NEW Q, NEW x \in DOMAIN w, Lands(w, r, q, Q, x),
         w[x].kind # "switch"
  PROVE  NonePruned(w, r, q)
<1>1. w[x].cases = {}
  BY Loaded DEF Plainly
<1> QED BY <1>1 DEF Lands, NonePruned

LEMMA ActingNow ==
  ASSUME TypeOK, IInv, ~Over(run), queue = << >>, NEW s \in S, Active(run, s),
         wf[s].kind \notin {"start", "switch"}
  PROVE  Acting(wf, run, {}, s)
<1>1. ArmsElsewhere(wf, run, {}, s)
  BY Before, ArmsTogether
<1>2. SwitchElsewhere(wf, run, s)
  BY Before DEF SwitchAtOnce, SwitchElsewhere
<1> QED BY <1>1, <1>2, Before DEF Acting

LEMMA NotOver ==
  ASSUME TypeOK, IInv
  PROVE  /\ \A s \in S : flight[s] > 0 \/ run.status[s] = "suspended" => ~Over(run)
         /\ queue # << >> => ~Over(run)
<1>1. \A s \in S : flight[s] \in Nat
  BY DEF TypeOK
<1> QED BY <1>1 DEF IInv, Stopped, Terminal

LEMMA StepDoneOk ==
  ASSUME TypeOK, IInv, NEW s \in S, StepDone(s)
  PROVE  StepOk
<1> USE DEF StepDone
<1>1. ~Over(run) /\ wf[s].kind \in {"effect", "guard"} /\ Active(run, s)
  BY NotOver, Before DEF Flying, Active
<1>0. s \notin run.replaying
  BY Before DEF Flying
<1>2. PICK q \in UNION {Answers(wf, run, s), Failures(wf, run, s, "failed"),
                       IF wf[s].onTimeout = None THEN {} ELSE Failures(wf, run, s, "timeout")} :
        Becomes(q, << >>, [flight EXCEPT ![s] = @ - 1])
  OBVIOUS
<1>3. Acting(wf, run, {}, s) /\ s \in DOMAIN wf /\ wf \in Workflows
  BY <1>1, ActingNow, Before
<1>4. Lands(wf, run, q, {}, s)
  <2>1. CASE q \in Answers(wf, run, s)
    BY <1>1, <1>3, <2>1, ActAnswers
  <2>2. CASE q \in Failures(wf, run, s, "failed")
    BY <1>1, <1>3, <2>2, ActFailures
  <2>3. CASE q \in Failures(wf, run, s, "timeout")
    BY <1>1, <1>3, <2>3, ActFailures
  <2>4. \/ q \in Answers(wf, run, s) \/ q \in Failures(wf, run, s, "failed")
        \/ q \in Failures(wf, run, s, "timeout")
    BY <1>2
  <2> QED BY <2>1, <2>2, <2>3, <2>4
<1>5. NonePruned(wf, run, q)
  BY <1>1, <1>3, <1>4, LandsPlain
<1>6. Flying(run, [flight EXCEPT ![s] = @ - 1])
  <2>1. Flying(run, flight)
    BY Before
  <2>2. flight[s] - 1 \in Nat
    BY <2>1 DEF Flying
  <2> QED BY <2>1, <2>2 DEF Flying
<1> QED BY <1>0, <1>1, <1>2, <1>4, <1>5, <1>6, AppliedOk

LEMMA WaitOverOk ==
  ASSUME TypeOK, IInv, NEW s \in S, WaitOver(s)
  PROVE  StepOk
<1> USE DEF WaitOver
<1>1. ~Over(run) /\ Active(run, s)
  BY NotOver DEF Active
<1>2. PICK q \in {End(run, s, "done")} \union Failures(wf, run, s, "failed")
                 \union Failures(wf, run, s, "timeout") : Becomes(q, << >>, flight)
  OBVIOUS
<1>3. Acting(wf, run, {}, s) /\ s \in DOMAIN wf /\ wf \in Workflows
  BY <1>1, ActingNow, Before
<1>4. Lands(wf, run, q, {}, s)
  <2>1. CASE q = End(run, s, "done")
    BY <1>3, <2>1, ActEnd
  <2>2. CASE q \in Failures(wf, run, s, "failed")
    BY <1>3, <2>2, ActFailures
  <2>3. CASE q \in Failures(wf, run, s, "timeout")
    BY <1>3, <2>3, ActFailures
  <2> QED BY <2>1, <2>2, <2>3
<1>5. NonePruned(wf, run, q)
  BY <1>3, <1>4, LandsPlain
<1> QED BY <1>1, <1>2, <1>4, <1>5, AppliedOk, Before

LEMMA RetryOk ==
  ASSUME TypeOK, IInv, NEW s \in S, Retry(s)
  PROVE  StepOk
<1> USE DEF Retry
<1> DEFINE q == AtOnce(run, s)
<1>1. ~Over(run) /\ Active(run, s)
  BY NotOver DEF Active
<1>2. SetsTo(wf, run, q, s, "pending")
  BY StatusFields, Before DEF AtOnce, Statuses
<1>3. wf \in Workflows /\ s \in DOMAIN wf /\ Becomes(q, << >>, flight)
  BY Before
<1> HIDE DEF q
<1>4. ArmsElsewhere(wf, run, {}, s) /\ OwnArms(wf, run, {}, s)
  BY Before, ArmsTogether
<1>5. SwitchElsewhere(wf, run, s)
  BY Before DEF SwitchAtOnce, SwitchElsewhere
<1>6. Fresh(wf, run, {}, s)
  BY <1>4 DEF Fresh, OwnArms, OneArm
<1>7. Acting(wf, run, {}, s)
  BY <1>1, <1>4, <1>5, <1>6, Before DEF Acting, Terminal
<1>8. Lands(wf, run, q, {}, s)
  BY <1>2, <1>3, <1>7, ActStatus
<1>9. NonePruned(wf, run, q)
  BY <1>2, <1>3, Before DEF NonePruned, SetsTo, Record
<1> QED BY <1>1, <1>3, <1>8, <1>9, AppliedOk, Before DEF Checkpointed

\* The head of the list begins, and the rest of the list is as sound as before.
LEMMA HeadBegins ==
  ASSUME TypeOK, IInv, queue # << >>, run.status[Head(queue)] = "pending"
  PROVE  LET s == Head(queue)
             r == Begin(run, s)
             Q == Range(Tail(queue)) IN
         /\ s \in S /\ s \in Range(queue) /\ Tail(queue) \in Seq(S) /\ IsInjective(Tail(queue))
         /\ BeginsAs(wf, run, r, s) /\ Acting(wf, r, Q, s) /\ Begun(wf, r, Q, s)
         /\ ArmsSound(wf, r, Q) /\ Follows(wf, run, r) /\ NonePruned(wf, run, r)
<1> DEFINE s == Head(queue)
           r == Begin(run, s)
           Q == Range(Tail(queue))
<1>1. queue \in Seq(S) /\ IsInjective(queue)
  BY DEF TypeOK
<1>2. /\ s \in S /\ s \in Range(queue) /\ Tail(queue) \in Seq(S) /\ IsInjective(Tail(queue))
      /\ s \notin Q /\ Q \subseteq Range(queue) /\ Range(queue) \subseteq S
  <2>1. s \in S /\ Tail(queue) \in Seq(S)
    BY <1>1
  <2>2. IsInjective(Tail(queue)) /\ s \notin Q
    BY <1>1, TailFresh
  <2>3. s \in Range(queue) /\ Q \subseteq Range(queue) /\ Range(queue) \subseteq S
    BY <1>1, RangeType, TailRange
  <2> QED BY <2>1, <2>2, <2>3
<1>3. BeginsAs(wf, run, r, s)
  BY <1>2, Before, BeginFields
<1> HIDE DEF s, r, Q
<1>4. wf \in Workflows /\ s \in DOMAIN wf /\ run \in Record(wf) /\ Sound(wf, run) /\ ~Over(run)
  BY <1>2, Before, NotOver
<1>5. /\ r \in Record(wf) /\ Sound(wf, r) /\ ~Over(r) /\ Active(r, s)
      /\ r.status[s] = "running" /\ s \notin r.replaying
  <2>1. run.status[s] = "pending"
    BY DEF s
  <2>2. Sound(wf, r)
    BY <1>3, <1>4, <2>1, SoundBegin
  <2>3. r \in Record(wf) /\ ~Over(r) /\ r.status[s] = "running" /\ s \notin r.replaying
    BY <1>3, <1>4 DEF BeginsAs, Over, Record
  <2> QED BY <2>2, <2>3 DEF Active
<1>6. ReadySound(wf, r, Q)
  <2>1. ReadySound(wf, run, Q)
    BY <1>2 DEF IInv, ReadySound
  <2>2. Q \in SUBSET DOMAIN wf /\ run.status[s] = "pending"
    BY <1>2, <1>4 DEF S, s
  <2> QED BY <1>2, <1>3, <1>4, <2>1, <2>2, ReadyBegin
<1>7. Begun(wf, r, Q, s)
  BY <1>2, <1>5, <1>6 DEF Begun, S
<1>8. /\ ArmsSound(wf, r, Range(queue))
      /\ wf[s].cases # {} /\ Exclusive(wf, s) /\ "pruned" \notin r.ends[s] =>
           \A t \in wf[s].cases : Untouched(wf, r, Range(queue), s, t)
  <2>1. ArmsSound(wf, run, Range(queue)) /\ run.status[s] = "pending"
    BY DEF IInv, s
  <2> QED BY <1>2, <1>3, <1>4, <2>1, ArmsBegin
<1>9. ArmsSound(wf, r, Q)
  BY <1>2, <1>4, <1>5, <1>8, ArmsFewer
<1>10. Fresh(wf, r, Q, s)
  BY <1>2, <1>8 DEF Fresh, Untouched
<1>11. SwitchElsewhere(wf, r, s)
  BY <1>3, <1>4, Before DEF SwitchAtOnce, SwitchElsewhere, BeginsAs, Record
<1>12. Acting(wf, r, Q, s)
  <2>1. ArmsElsewhere(wf, r, Q, s)
    BY <1>4, <1>9, ArmsTogether
  <2> QED BY <1>5, <1>10, <1>11, <2>1 DEF Acting, Terminal
<1>13. Follows(wf, run, r) /\ NonePruned(wf, run, r)
  BY <1>3, <1>4, FollowsBegin
<1> QED BY <1>2, <1>3, <1>7, <1>9, <1>12, <1>13 DEF s, r, Q

\* The head has begun as r and left the record q.
LEMMA ExecutedOk ==
  ASSUME TypeOK, IInv, queue # << >>, run.status[Head(queue)] = "pending",
         NEW q, Lands(wf, Begin(run, Head(queue)), q, Range(Tail(queue)), Head(queue)),
         NEW out, Flying(q, out), Becomes(q, Tail(queue), out),
         saved' = run' \/ saved' = saved, UNCHANGED <<wf, order, crashes>>
  PROVE  StepOk
<1> DEFINE s == Head(queue)
           r == Begin(run, s)
           Q == Range(Tail(queue))
<1>1. /\ s \in S /\ s \in Range(queue) /\ Tail(queue) \in Seq(S) /\ IsInjective(Tail(queue))
      /\ BeginsAs(wf, run, r, s) /\ Begun(wf, r, Q, s) /\ Acting(wf, r, Q, s)
      /\ Follows(wf, run, r) /\ NonePruned(wf, run, r)
  BY HeadBegins
<1>2. Lands(wf, r, q, Q, s)
  OBVIOUS
<1> HIDE DEF r, Q, s
<1>3. run' = q /\ ~Over(run)
  BY NotOver DEF Becomes
<1>4. /\ q \in Record(wf) /\ Sound(wf, q) /\ SwitchAtOnce(wf, q) /\ ArmsSound(wf, q, Q)
      /\ q.attempt = r.attempt /\ q.outcome # "stalled"
      /\ Over(q) => \A t \in DOMAIN wf : Terminal(q.status[t])
      /\ Follows(wf, r, q) /\ (Over(q) \/ ReadySound(wf, q, Q))
  BY <1>1, <1>2 DEF Lands, Declared, Over
<1>5. Left(q, Tail(queue))
  BY <1>1, <1>4 DEF Left, Q, S
<1>6. Follows(wf, run, q)
  <2>1. run \in Record(wf) /\ r \in Record(wf) /\ q \in Record(wf)
    BY <1>1, <1>4, Before DEF Acting
  <2> QED BY <1>1, <1>4, <2>1, FollowsTrans
<1>7. Keeps(q)
  BY <1>3, <1>6 DEF Keeps
<1>8. crashes' \in 0 .. MaxCrashes
  BY DEF TypeOK
<1>9. TypeOK' /\ IInv'
  BY <1>3, <1>5, <1>7, <1>8, Reached
<1>10. Starting(s) /\ \A t \in S : Starting(t) => t = s
  <2>1. q.attempt = [run.attempt EXCEPT ![s] = @ + 1] /\ run \in Record(wf)
    BY <1>1, <1>4, Before DEF BeginsAs
  <2>2. \A t \in S : run.attempt[t] \in Nat
    BY Before
  <2> QED BY <1>1, <1>3, <2>1, <2>2 DEF Starting, Record, S
<1>11. StartsHead
  BY <1>1, <1>10 DEF StartsHead
<1>12. AsRouted
  <2>1. \A t \in DOMAIN wf : q.status[t] = "pruned" => r.status[t] = "pruned" \/ t \in wf[s].cases
    BY <1>2 DEF Lands
  <2>2. \A t \in DOMAIN wf : r.status[t] = "pruned" => run.status[t] = "pruned"
    BY <1>1 DEF NonePruned
  <2>3. run.replaying \subseteq DOMAIN wf
    BY Before DEF Record
  <2> QED BY <1>1, <1>3, <1>10, <2>1, <2>2, <2>3 DEF AsRouted
<1> QED BY <1>9, <1>11, <1>12 DEF StepOk

\* The head is begun, r being the record that says so.
LEMMA LaunchOk ==
  ASSUME TypeOK, IInv, queue # << >>, Launch(Head(queue)), UNCHANGED <<wf, order, crashes>>
  PROVE  StepOk
<1> DEFINE s == Head(queue)
           r == Begin(run, s)
           Q == Range(Tail(queue))
           out == [flight EXCEPT ![s] = @ + 1]
<1>1. /\ run.status[s] = "pending" /\ wf[s].kind \in {"effect", "guard"}
      /\ Becomes(r, Tail(queue), out) /\ saved' = run'
  BY DEF Launch
<1>2. s \in S /\ BeginsAs(wf, run, r, s) /\ Acting(wf, r, Q, s) /\ ArmsSound(wf, r, Q)
  BY <1>1, HeadBegins
<1>3. wf \in Workflows /\ s \in DOMAIN wf
  BY <1>2, Before
<1> HIDE DEF s, r, Q
<1>4. Lands(wf, r, r, Q, s)
  <2>1. Along(wf, r, r, Q, s)
    BY <1>2, <1>3, AlongSelf DEF Acting
  <2>2. OwnArms(wf, r, Q, s)
    BY <1>2, <1>3, ArmsTogether
  <2> QED BY <1>1, <1>3, <2>1, <2>2, AlongLands
<1>5. Flying(r, out)
  <2>1. Flying(run, flight) /\ run \in Record(wf)
    BY Before
  <2>2. r.attempt = [run.attempt EXCEPT ![s] = @ + 1]
    BY <1>2 DEF BeginsAs
  <2>3. \A t \in S : run.attempt[t] \in Nat /\ flight[t] \in Nat
    BY <2>1, Before DEF Flying
  <2>4. r.attempt[s] > 0 /\ \A t \in S \ {s} : r.attempt[t] = run.attempt[t]
    BY <1>2, <2>1, <2>2, <2>3, Before DEF Record
  <2>5. r.replaying = run.replaying \ {s}
    BY <1>2 DEF BeginsAs
  <2> QED BY <1>1, <1>2, <2>1, <2>3, <2>4, <2>5 DEF Flying
<1> HIDE DEF out
<1> QED BY <1>1, <1>4, <1>5, ExecutedOk DEF s, r, Q

\* What was in flight stays so when the head computes or waits.
LEMMA StillFlying ==
  ASSUME TypeOK, IInv, NEW s \in S, NEW r, BeginsAs(wf, run, r, s), NEW q, q.attempt = r.attempt,
         q.replaying \subseteq r.replaying
  PROVE  Flying(q, flight) /\ r.attempt[s] > 0
<1>1. Flying(run, flight) /\ run \in Record(wf) /\ S = DOMAIN wf
  BY Before
<1>2. r.attempt = [run.attempt EXCEPT ![s] = @ + 1]
  BY DEF BeginsAs
<1>3. \A t \in S : run.attempt[t] \in Nat
  BY Before
<1>4. r.attempt[s] > 0 /\ \A t \in S \ {s} : r.attempt[t] = run.attempt[t]
  BY <1>1, <1>2, <1>3 DEF Record
<1>5. q.replaying \subseteq run.replaying
  BY DEF BeginsAs
<1> QED BY <1>1, <1>4, <1>5 DEF Flying

LEMMA AwaitOk ==
  ASSUME TypeOK, IInv, queue # << >>, Await(Head(queue)), UNCHANGED <<wf, order, crashes>>
  PROVE  StepOk
<1> DEFINE s == Head(queue)
           r == Begin(run, s)
           Q == Range(Tail(queue))
           q == Suspend(r, s)
<1>1. /\ run.status[s] = "pending" /\ Becomes(q, Tail(queue), flight) /\ saved' = run'
  BY DEF Await
<1>2. s \in S /\ BeginsAs(wf, run, r, s) /\ Acting(wf, r, Q, s)
  BY <1>1, HeadBegins
<1>3. wf \in Workflows /\ s \in DOMAIN wf /\ r \in Record(wf)
  BY <1>2, Before DEF Acting
<1>4. SetsTo(wf, r, q, s, "suspended")
  <2> HIDE DEF r
  <2> QED BY <1>3, StatusFields DEF Suspend, Statuses
<1> HIDE DEF s, r, Q, q
<1>5. Lands(wf, r, q, Q, s)
  BY <1>2, <1>3, <1>4, ActStatus
<1>6. Flying(q, flight)
  BY <1>2, <1>4, StillFlying DEF SetsTo
<1> QED BY <1>1, <1>5, <1>6, ExecutedOk DEF s, r, Q

LEMMA ComputeOk ==
  ASSUME TypeOK, IInv, queue # << >>, Compute(Head(queue)), UNCHANGED <<wf, order, crashes>>
  PROVE  StepOk
<1> DEFINE s == Head(queue)
           r == Begin(run, s)
           Q == Range(Tail(queue))
<1>1. /\ run.status[s] = "pending" /\ wf[s].kind \in {"assign", "switch", "finish", "start"}
      /\ saved' = run' \/ saved' = saved
  BY DEF Compute
<1>2. PICK q \in Results(wf, r, s) \union Failures(wf, r, s, "failed") :
        Becomes(q, Tail(queue), flight)
  BY DEF Compute
<1>3. s \in S /\ BeginsAs(wf, run, r, s) /\ Acting(wf, r, Q, s) /\ Begun(wf, r, Q, s)
  BY <1>1, HeadBegins
<1>4. wf \in Workflows /\ s \in DOMAIN wf
  BY <1>3, Before
<1> HIDE DEF s, r, Q
<1>5. r.attempt[s] > 0 /\ r.status[s] = "running"
  BY <1>3, StillFlying DEF Begun
<1>6. Lands(wf, r, q, Q, s)
  <2>1. CASE q \in Results(wf, r, s)
    BY <1>1, <1>3, <1>4, <1>5, <2>1, ActResults
  <2>2. CASE q \in Failures(wf, r, s, "failed")
    BY <1>3, <1>4, <2>2, ActFailures
  <2> QED BY <2>1, <2>2
<1>7. Flying(q, flight)
  BY <1>3, <1>6, StillFlying DEF Lands
<1> QED BY <1>1, <1>2, <1>6, <1>7, ExecutedOk DEF s, r, Q

LEMMA PassOverOk ==
  ASSUME TypeOK, IInv, queue # << >>, PassOver(Head(queue)), UNCHANGED <<wf, order, crashes>>
  PROVE  StepOk
<1>1. Becomes(run, Tail(queue), flight) /\ (saved' = run' \/ saved' = saved)
  BY DEF PassOver
<1>2. run' = run
  BY <1>1 DEF Becomes
<1>3. queue \in Seq(S) /\ IsInjective(queue) /\ ~Over(run)
  BY NotOver DEF TypeOK
<1>4. Tail(queue) \in Seq(S) /\ IsInjective(Tail(queue)) /\ Range(Tail(queue)) \subseteq Range(queue)
  BY <1>3, TailRange, TailFresh
<1>5. Left(run, Tail(queue))
  <2>1. ReadySound(wf, run, Range(Tail(queue)))
    BY <1>4 DEF IInv, ReadySound
  <2>2. ArmsSound(wf, run, Range(queue))
    BY DEF IInv
  <2>3. ArmsSound(wf, run, Range(Tail(queue)))
    BY <1>4, <2>2, ArmsFewer, Before
  <2> QED BY <1>3, <1>4, <2>1, <2>3, Before DEF Left, Over
<1>6. Keeps(run)
  BY <1>1, <1>2, FollowsRefl, Before DEF Keeps
<1>7. crashes' \in 0 .. MaxCrashes
  BY DEF TypeOK
<1>8. TypeOK' /\ IInv'
  BY <1>1, <1>3, <1>5, <1>6, <1>7, Reached, Before
<1>9. StartsHead /\ AsRouted
  BY <1>2, NothingStarts DEF AsRouted
<1> QED BY <1>8, <1>9 DEF StepOk

LEMMA ExecuteOk ==
  ASSUME TypeOK, IInv, Execute
  PROVE  StepOk
<1>1. queue # << >> /\ UNCHANGED <<wf, order, crashes>>
  BY DEF Execute
<1>2. \/ Launch(Head(queue)) \/ Await(Head(queue)) \/ Compute(Head(queue))
      \/ PassOver(Head(queue))
  BY DEF Execute
<1> QED BY <1>1, <1>2, LaunchOk, AwaitOk, ComputeOk, PassOverOk

\* The pass ends with a ready list, or the run ends with the pass.
LEMMA ScheduleOk ==
  ASSUME TypeOK, IInv, Schedule
  PROVE  StepOk
<1>1. ~Over(run) /\ queue = << >> /\ UNCHANGED <<wf, order, crashes>>
  BY DEF Schedule
<1>2. PICK yes \in SUBSET {s \in S : wf[s].when} :
        \E p \in {Pass(yes)} : \E r \in {Concluded(p)} : ~p.changed /\ Becomes(r, p.ready, flight)
  BY DEF Schedule
<1> DEFINE p == Pass(yes)
           r == Concluded(p)
<1>3. ~p.changed /\ Becomes(r, p.ready, flight)
  BY <1>2
<1>4. Passed(yes, p)
  <2>1. order \in Seq(S) /\ Range(order) = S
    BY DEF TypeOK, IInv
  <2> QED BY <1>1, <2>1, Before, PassFacts
<1> HIDE DEF p
<1>5. /\ p \in Passes(wf) /\ IsInjective(p.ready) /\ p.run \in Record(wf) /\ p.ready \in Seq(S)
      /\ p.run.attempt = run.attempt /\ p.run.outcome = "live" /\ Follows(wf, run, p.run)
      /\ Sound(wf, p.run) /\ SwitchAtOnce(wf, p.run) /\ ReadySound(wf, p.run, Range(p.ready))
      /\ ArmsSound(wf, p.run, Range(p.ready)) /\ ReplaysHold(wf, run, p.run)
  BY <1>1, <1>4 DEF Passed, Passing, Passes, Over, S
<1>6. Settled(wf, yes, p)
  BY <1>3, <1>4, <1>5 DEF Passed, Passes
<1>7. wf \in Workflows /\ S = DOMAIN wf /\ run \in Record(wf)
  BY Before
<1>8. /\ Left(r, p.ready) /\ r.attempt = run.attempt /\ NonePruned(wf, p.run, r)
      /\ r.replaying = p.run.replaying
      /\ r = p.run \/ (p.ready = << >> /\ Over(r))
  <2> DEFINE status == p.run.status
             o == IF \E s \in DOMAIN status : Unsuccessful(status[s]) THEN "failed" ELSE "stalled"
  <2>1. DOMAIN status = DOMAIN wf
    BY <1>5 DEF Record
  <2>2. CASE p.ready # << >> \/ \E s \in DOMAIN status : status[s] \in {"running", "suspended"}
    <3>1. r = p.run
      BY <2>2 DEF Concluded
    <3>2. ~Over(p.run) /\ NonePruned(wf, p.run, p.run)
      BY <1>5, FollowsRefl DEF Over
    <3> HIDE DEF r
    <3> QED BY <1>5, <3>1, <3>2 DEF Left, Over
  <2>3. CASE p.ready = << >> /\ \A s \in DOMAIN status : status[s] \notin {"running", "suspended"}
    <3>1. r = Finish(p.run, o)
      BY <2>3 DEF Concluded
    <3>2. o \in Outcomes \ {"live"}
      BY DEF Outcomes
    <3>3. Range(p.ready) = {}
      BY <2>3, EmptyRange
    <3>4. FinishesAs(wf, p.run, Finish(p.run, o), o)
      BY <1>5, <3>2, FinishFields
    <3>5. o = "stalled" /\ ~WaitsInCircle(wf) =>
            \A s \in S : Finish(p.run, o).status[s] # "cancelled"
      <4> SUFFICES ASSUME o = "stalled", ~WaitsInCircle(wf)
                   PROVE  \A s \in S : Finish(p.run, o).status[s] # "cancelled"
        OBVIOUS
      <4>1. \A s \in DOMAIN wf : ~Unsuccessful(p.run.status[s])
        BY <2>1
      <4>2. \A s \in DOMAIN wf : p.run.status[s] = "pending" => Verdict(wf, yes, p.run, s) = "wait"
        BY <1>6, <3>3 DEF Settled
      <4>3. \A s \in DOMAIN wf : p.run.status[s] \notin {"running", "suspended"}
        BY <2>1, <2>3
      <4>4. FinishesAs(wf, p.run, Finish(p.run, o), "stalled")
        BY <3>4
      <4> HIDE DEF o
      <4> QED BY <1>5, <1>7, <4>1, <4>2, <4>3, <4>4, StalledEnds
    <3> HIDE DEF o, r, status
    <3>6. /\ Left(Finish(p.run, o), << >>) /\ Over(Finish(p.run, o))
          /\ NonePruned(wf, p.run, Finish(p.run, o))
      BY <1>5, <1>7, <3>2, <3>3, <3>5, FinishLeft
    <3>7. r.attempt = p.run.attempt /\ r.replaying = p.run.replaying
      BY <3>1, <3>4 DEF FinishesAs
    <3> QED BY <1>5, <2>3, <3>1, <3>6, <3>7
  <2> QED BY <2>2, <2>3
<1> HIDE DEF r
<1>9. run' = r
  BY <1>3 DEF Becomes
<1>10. Flying(r, flight)
  <2>1. r.replaying \subseteq run.replaying
    BY <1>5, <1>8 DEF Follows
  <2> QED BY <1>8, <2>1, Before DEF Flying
<1>11. Keeps(r)
  <2>1. saved' = IF queue' = << >> THEN run' ELSE saved
    BY DEF Schedule
  <2>2. CASE r = p.run
    BY <1>5, <1>9, <2>1, <2>2 DEF Keeps
  <2>3. CASE Over(r)
    BY <1>3, <1>9, <2>1, <2>3 DEF Keeps, Becomes
  <2> QED BY <1>8, <2>2, <2>3
<1>12. crashes' \in 0 .. MaxCrashes
  BY <1>1 DEF TypeOK
<1>13. TypeOK' /\ IInv'
  BY <1>1, <1>3, <1>8, <1>10, <1>11, <1>12, Reached
<1>14. StartsHead
  BY <1>8, <1>9, NothingStarts
<1>15. AsRouted
  <2> SUFFICES ASSUME NEW s \in run.replaying \intersect run.routed, run.status[s] # "pruned",
                      r.status[s] = "pruned", ~wf[s].when, GuardHolds(wf, run, s)
               PROVE  FALSE
    BY <1>9 DEF AsRouted
  <2>1. s \in DOMAIN wf
    BY <1>7 DEF Record
  <2>2. p.run.status[s] = "pruned"
    BY <1>8, <2>1 DEF NonePruned
  <2> QED BY <1>5, <2>2 DEF ReplaysHold
<1> QED BY <1>13, <1>14, <1>15 DEF StepOk

\* A restart goes on from what the last life left.
LEMMA CrashOk ==
  ASSUME TypeOK, IInv, Crash
  PROVE  StepOk
<1>1. /\ ~Over(run) /\ crashes < MaxCrashes /\ crashes' = crashes + 1 /\ saved' = run'
      /\ queue' = << >> /\ flight' = [s \in S |-> 0] /\ UNCHANGED <<wf, order>>
  BY DEF Crash
<1>2. PICK left \in LeftBehind : run' = Replayed(wf, left)
  BY DEF Crash
<1>3. wf \in Workflows /\ S = DOMAIN wf /\ run \in Record(wf) /\ saved \in Record(wf)
  BY Before
<1>4. /\ left \in Record(wf) /\ left.outcome = "live" /\ Sound(wf, left) /\ SwitchAtOnce(wf, left)
      /\ ArmsSound(wf, left, {})
      /\ \A s \in S : left.attempt[s] <= run.attempt[s] \/ s \in Range(queue)
      /\ \A s \in run.replaying : left.status[s] = "pruned" => run.status[s] = "pruned"
  <2>1. CASE left = saved
    <3>1. ~Over(saved)
      BY <1>1 DEF IInv, Lagging
    <3> QED BY <1>3, <2>1, <3>1 DEF IInv, Lagging, Over
  <2>2. CASE left # saved
    <3> DEFINE s == Head(queue)
               Q == Range(Tail(queue))
    <3>1. /\ queue # << >> /\ run.status[s] = "pending" /\ left = Begin(run, s)
          /\ wf[s].kind \in {"wait", "finish", "start"}
      BY <2>2 DEF LeftBehind
    <3>2. /\ s \in S /\ s \in Range(queue) /\ BeginsAs(wf, run, left, s) /\ Acting(wf, left, Q, s)
          /\ ArmsSound(wf, left, Q) /\ NonePruned(wf, run, left)
      BY <3>1, HeadBegins
    <3> HIDE DEF s, Q
    <3>3. left \in Record(wf) /\ left.outcome = "live" /\ Sound(wf, left)
      BY <3>2 DEF Acting, Over
    <3>4. ArmsSound(wf, left, {})
      BY <1>3, <3>2, <3>3, ArmsFewer
    <3>5. SwitchAtOnce(wf, left)
      BY <3>1, <3>2 DEF Acting, SwitchElsewhere, SwitchAtOnce
    <3>6. \A t \in S : left.attempt[t] <= run.attempt[t] \/ t \in Range(queue)
      <4>1. left.attempt = [run.attempt EXCEPT ![s] = @ + 1]
        BY <3>2 DEF BeginsAs
      <4>2. \A t \in S : run.attempt[t] \in Nat
        BY Before
      <4> QED BY <1>3, <3>2, <4>1, <4>2 DEF Record
    <3>7. run.replaying \subseteq DOMAIN wf
      BY <1>3 DEF Record
    <3> QED BY <3>2, <3>3, <3>4, <3>5, <3>6, <3>7 DEF NonePruned
  <2> QED BY <2>1, <2>2
<1> DEFINE q == Replayed(wf, left)
<1>5. ReplaysAs(wf, left, q)
  BY <1>3, <1>4, ReplayFields
<1>6. run' = q /\ saved' = q
  BY <1>1, <1>2
<1> HIDE DEF q
<1>7. q \in Record(wf) /\ Sound(wf, q) /\ SwitchAtOnce(wf, q) /\ ArmsSound(wf, q, {})
  <2>1. Sound(wf, q) /\ SwitchAtOnce(wf, q)
    BY <1>3, <1>4, <1>5, SoundReplay
  <2>2. ArmsSound(wf, q, {})
    BY <1>3, <1>4, <1>5, ArmsReplay
  <2> QED BY <1>5, <2>1, <2>2 DEF ReplaysAs
<1>8. q.outcome = "live" /\ q.attempt = left.attempt
  BY <1>4, <1>5 DEF ReplaysAs
<1>9. << >> \in Seq(S) /\ IsInjective(<< >>) /\ Range(<< >>) = {} /\ ReadySound(wf, q, {})
  BY EmptyRange DEF IsInjective, ReadySound
<1>10. Left(q, << >>)
  BY <1>7, <1>8, <1>9 DEF Left, Over
<1>11. Flying(q, [s \in S |-> 0])
  BY DEF Flying
<1>12. Becomes(q, << >>, [s \in S |-> 0])
  BY <1>1, <1>6 DEF Becomes
<1>13. Keeps(q)
  BY <1>6 DEF Keeps
<1>14. crashes' \in 0 .. MaxCrashes
  BY <1>1, GraphAssumption DEF TypeOK
<1>15. TypeOK' /\ IInv'
  BY <1>1, <1>10, <1>11, <1>12, <1>13, <1>14, Reached
<1>16. StartsHead
  <2>1. \A s \in S : left.attempt[s] \in Nat /\ run.attempt[s] \in Nat
    BY <1>3, <1>4 DEF Record
  <2> QED BY <1>4, <1>6, <1>8, <2>1 DEF StartsHead, Starting
<1>17. AsRouted
  <2> SUFFICES ASSUME NEW s \in run.replaying, run.status[s] # "pruned", q.status[s] = "pruned"
               PROVE  FALSE
    BY <1>6 DEF AsRouted
  <2>1. s \in DOMAIN wf
    BY <1>3 DEF Record
  <2>2. left.status[s] = "pruned"
    BY <1>5, <2>1 DEF ReplaysAs
  <2> QED BY <1>4, <2>2
<1> QED BY <1>15, <1>16, <1>17 DEF StepOk

\* Every step of the run, and every stuttering step.
LEMMA StepsOk ==
  ASSUME TypeOK, IInv, [Next]_vars
  PROVE  StepOk
<1>1. CASE Schedule
  BY <1>1, ScheduleOk
<1>2. CASE ScheduleFails
  BY <1>2, StopsOk DEF ScheduleFails, Declared
<1>3. CASE Stop
  BY <1>3, StopsOk DEF Stop, Declared
<1>4. CASE Exhausted
  BY <1>4, StopsOk DEF Exhausted, Declared
<1>5. CASE Execute
  BY <1>5, ExecuteOk
<1>6. CASE Crash
  BY <1>6, CrashOk
<1>7. CASE \E s \in S : StepDone(s) \/ WaitOver(s) \/ Retry(s)
  BY <1>7, StepDoneOk, WaitOverOk, RetryOk
<1>8. CASE UNCHANGED vars
  <2>1. /\ wf' = wf /\ order' = order /\ run' = run /\ saved' = saved /\ queue' = queue
        /\ flight' = flight /\ crashes' = crashes /\ S' = S
    BY <1>8 DEF vars, S
  <2>2. TypeOK'
    BY <2>1 DEF TypeOK
  <2>3. Lagging' /\ Stopped' /\ StalledMeansExhausted'
    BY <2>1 DEF IInv, Lagging, Stopped, StalledMeansExhausted
  <2>4. IInv'
    BY <2>1, <2>3 DEF IInv
  <2>5. StartsHead /\ AsRouted
    BY <2>1, NothingStarts DEF AsRouted
  <2> QED BY <2>2, <2>4, <2>5 DEF StepOk
<1> QED BY <1>1, <1>2, <1>3, <1>4, <1>5, <1>6, <1>7, <1>8 DEF Next, Ended

---------------------------------------------------------------------------
(* The theorems.                                                           *)

\* Every reachable state satisfies the type invariant and the inductive one,
\* whatever the definition, the answers and the restarts.
THEOREM GraphInvariant == Spec => [](TypeOK /\ IInv)
<1>1. Init => TypeOK /\ IInv
  BY Initially
<1>2. TypeOK /\ IInv /\ [Next]_vars => (TypeOK /\ IInv)'
  BY StepsOk DEF StepOk
<1> QED BY <1>1, <1>2, PTL DEF Spec

\* The run record keeps its type, only work that leaves the process is in
\* flight, and a ready list never names a step twice.
THEOREM GraphTypeCorrect == Spec => []TypeOK
BY GraphInvariant, PTL

\* A guarded step starts only when its guard has answered yes, and answered
\* since the step last ran, whichever edge has led back to it: schedule never
\* lets an edge pass over a guard, and nothing between the pass and the start
\* takes the answer back.
THEOREM GuardsAreRespected == Spec => GuardRespected
<1>1. TypeOK /\ IInv /\ [Next]_vars =>
        [\A s \in S : Starting(s) /\ GuardsPrivate(wf) /\ wf[s].guard # None =>
           GuardHolds(wf, run, s) /\ s \in run.asked]_vars
  <2> SUFFICES ASSUME TypeOK, IInv, [Next]_vars, NEW s \in S, Starting(s), GuardsPrivate(wf),
                      wf[s].guard # None
               PROVE  GuardHolds(wf, run, s) /\ s \in run.asked
    OBVIOUS
  <2>1. s \in Range(queue)
    BY StepsOk DEF StepOk, StartsHead
  <2> QED BY <2>1 DEF IInv, ReadySound, Guarded
<1> QED BY <1>1, GraphInvariant, PTL DEF Spec, GuardRespected

\* A step no edge has led to starts only after every dependency has ended, one
\* of them done or skipped: the tail of a branch nobody chose never runs, even
\* from a ready list an earlier step of the list has made stale.
THEOREM NothingStartsEarly == Spec => NoEarlyStart
<1>1. TypeOK /\ IInv /\ [Next]_vars =>
        [\A s \in S : Starting(s) /\ GuardsPrivate(wf) =>
           \/ ({s} \union Guarding(wf, s)) \intersect run.routed # {}
           \/ /\ \A d \in wf[s].deps : run.ends[d] # {}
              /\ \E d \in wf[s].deps : run.ends[d] \intersect {"done", "skipped"} # {}]_vars
  <2> SUFFICES ASSUME TypeOK, IInv, [Next]_vars, NEW s \in S, Starting(s), GuardsPrivate(wf)
               PROVE  \/ ({s} \union Guarding(wf, s)) \intersect run.routed # {}
                      \/ /\ \A d \in wf[s].deps : run.ends[d] # {}
                         /\ \E d \in wf[s].deps : run.ends[d] \intersect {"done", "skipped"} # {}
    OBVIOUS
  <2>1. s \in Range(queue)
    BY StepsOk DEF StepOk, StartsHead
  <2>2. Early(wf, run, s)
    BY <2>1 DEF IInv, ReadySound
  <2> QED BY <2>2 DEF Early
<1> QED BY <1>1, GraphInvariant, PTL DEF Spec, NoEarlyStart

\* At most one arm of a switch that has not been pruned ever runs, across
\* retries of the switch and restarts: what exclusive_by_switch relies on when
\* it lets two arms write one key.
THEOREM AtMostOneArm == Spec => []OneArmRuns
<1>1. TypeOK /\ IInv => OneArmRuns
  <2> SUFFICES ASSUME TypeOK, IInv, NEW s \in S, "pruned" \notin run.ends[s], Exclusive(wf, s)
               PROVE  Cardinality(ArmsRun(s)) <= 1
    BY DEF OneArmRuns
  <2>1. \E c : ArmsRun(s) \subseteq {c}
    <3>1. CASE wf[s].cases = {}
      BY <3>1 DEF ArmsRun
    <3>2. CASE wf[s].cases # {}
      <4>1. OneArm(wf, run, Range(queue), s)
        BY <3>2 DEF IInv, ArmsSound, S
      <4>2. PICK c \in wf[s].cases :
              \A t \in wf[s].cases \ {c} : Untouched(wf, run, Range(queue), s, t)
        BY <4>1 DEF OneArm
      <4>3. \A t \in wf[s].cases \ {c} : run.attempt[t] = 0
        BY <4>2 DEF Untouched
      <4>4. ArmsRun(s) \subseteq {c}
        BY <4>3 DEF ArmsRun
      <4> QED BY <4>4
    <3> QED BY <3>1, <3>2
  <2>2. PICK c : ArmsRun(s) \subseteq {c}
    BY <2>1
  <2>3. ArmsRun(s) = {} \/ ArmsRun(s) = {c}
    BY <2>2
  <2>4. Cardinality({}) = 0 /\ Cardinality({c}) = 1
    BY FS_EmptySet, FS_Singleton
  <2> QED BY <2>3, <2>4
<1> QED BY <1>1, GraphInvariant, PTL

\* A run ends stalled only with every step ended or pruned, unless its
\* definition has steps that wait for one another: the pass settles with every
\* pending step waiting for another pending one.
THEOREM StallsExhausted == Spec => []StalledMeansExhausted
<1>1. IInv => StalledMeansExhausted
  BY DEF IInv
<1> QED BY <1>1, GraphInvariant, PTL

\* A routed step caught running by a crash is never pruned for the dependencies
\* its edge had passed over: only its own condition or guard, or a switch that
\* has it as a case and starts again, can prune it.
THEOREM RoutedIsReplayed == Spec => ReplayedAsRouted
<1>1. TypeOK /\ IInv /\ [Next]_vars =>
        [\A s \in run.replaying \intersect run.routed :
           run.status[s] # "pruned" /\ run'.status[s] = "pruned" =>
             \/ wf[s].when \/ ~GuardHolds(wf, run, s)
             \/ \E x \in S : s \in wf[x].cases /\ Starting(x)]_vars
  <2> SUFFICES ASSUME TypeOK, IInv, [Next]_vars
               PROVE  \A s \in run.replaying \intersect run.routed :
                        run.status[s] # "pruned" /\ run'.status[s] = "pruned" =>
                          \/ wf[s].when \/ ~GuardHolds(wf, run, s)
                          \/ \E x \in S : s \in wf[x].cases /\ Starting(x)
    OBVIOUS
  <2> QED BY StepsOk DEF StepOk, AsRouted
<1> QED BY <1>1, GraphInvariant, PTL DEF Spec, ReplayedAsRouted
=============================================================================
