------------------------------- MODULE Graph --------------------------------
(***************************************************************************)
(* One run of a workflow: the scheduler over its graph (engine/run.rs),    *)
(* the reactor's pass that runs what is ready (runtime/steps.rs) and the   *)
(* routing edges: a `switch' case, `on_error: goto' and `on_timeout'.      *)
(*                                                                         *)
(* A pass is sequential, so `queue' holds the rest of the ready list while *)
(* one is under way and no answer is handled before it is empty; the       *)
(* process may die inside it.  A step whose work leaves the process (an    *)
(* effect, a decision guard) is in `flight' until it answers; one that     *)
(* computes in place ends in the step that starts it.  The workflow is one *)
(* of a family, so a check covers every graph of that family.              *)
(***************************************************************************)
EXTENDS Naturals, Sequences, SequencesExt

CONSTANTS
  Ids,         \* step ids, in the order of the definition's map
  Workflows,   \* the family of definitions: functions from step ids to steps
  None,        \* no guard, no on_timeout
  StepCap,     \* limits.steps, else the instance's limits.run.steps, else None
  MaxCrashes   \* bound on restarts

VARIABLES
  wf,       \* the definition the run executes
  order,    \* its steps in topological order
  run,      \* RunState, and four histories
  saved,    \* the run as last checkpointed
  queue,    \* steps of the ready list not yet executed
  flight,   \* step -> answers outstanding
  crashes

vars == <<wf, order, run, saved, queue, flight, crashes>>

Statuses == {"pending", "running", "done", "failed", "skipped", "cancelled",
             "timeout", "suspended", "pruned"}
Terminal(status) == status \notin {"pending", "running", "suspended"}
Satisfied(status) == status \in {"done", "skipped"}
Unsuccessful(status) == status \in {"failed", "cancelled", "timeout"}

-----------------------------------------------------------------------------
(* Definitions.                                                            *)

Kinds == {"start", "effect", "guard", "wait", "switch", "assign", "finish"}

Step == [kind : Kinds, deps : SUBSET Range(Ids), when : BOOLEAN,
         guard : Range(Ids) \union {None},
         onError : {"fail", "continue"} \union Range(Ids),
         onTimeout : Range(Ids) \union {None},
         cases : SUBSET Range(Ids), retry : Nat,
         onReplay : {"retry", "skip", "fail"}]

Guarding(w, g) == {t \in DOMAIN w : w[t].guard = g}
RoutesTo(w, s, t) == w[s].onTimeout = t \/ w[s].onError = t \/ t \in w[s].cases
TimeoutTargets(w) == {w[s].onTimeout : s \in DOMAIN w}

\* The ids as they are walked, over and over, each step following once its
\* dependencies are out.
TopoOrder(w) ==
  LET out[i \in 0 .. Len(Ids) * Len(Ids)] ==
        IF i = 0 THEN << >>
        ELSE LET o == out[i - 1]
                 s == Ids[((i - 1) % Len(Ids)) + 1]
             IN IF s \in DOMAIN w \ Range(o) /\ w[s].deps \subseteq Range(o)
                THEN Append(o, s) ELSE o
  IN out[Len(Ids) * Len(Ids)]

Starts(w) == {s \in DOMAIN w : w[s].kind = "start"}

\* What parse_step makes of a step: only a switch has cases (one that names no
\* step leads nowhere), a start depends on nothing, and a decision guard is a
\* step of its own, plain, that its step depends on alone.
Parsed(w) ==
  \A s \in DOMAIN w :
    /\ w[s].cases \subseteq IF w[s].kind = "switch" THEN DOMAIN w ELSE {}
    /\ w[s].kind = "start" => w[s].deps = {}
    /\ w[s].kind = "guard" => Guarding(w, s) # {}
    /\ w[s].guard # None =>
         /\ w[s].guard \in DOMAIN w /\ w[s].deps = {w[s].guard}
         /\ Guarding(w, w[s].guard) = {s} /\ ~w[s].when /\ w[s].kind # "start"
         /\ LET g == w[w[s].guard] IN
            /\ g.kind = "guard" /\ g.guard = None /\ ~g.when /\ g.retry = 0
            /\ g.onError = "fail" /\ g.onTimeout = None

\* Closed under the edges that make a step reachable.
Reaches(w, R) ==
  \A s \in DOMAIN w :
    /\ w[s].deps \intersect R # {} => s \in R
    /\ s \in R => {w[s].onTimeout, w[s].guard} \ {None} \subseteq R

\* validate_graph: what a definition must be to load.
Valid(w) ==
  /\ Starts(w) # {} /\ \E s \in DOMAIN w : w[s].kind = "finish"
  /\ \A s \in DOMAIN w :
       /\ w[s].deps \subseteq DOMAIN w \ {s}
       /\ w[s].onError \in {"fail", "continue"} \union DOMAIN w
       /\ w[s].onTimeout \in {None} \union DOMAIN w
       /\ w[s].deps = {} =>
            s \in Starts(w) \/ ({s} \union Guarding(w, s)) \intersect TimeoutTargets(w) # {}
  /\ \A R \in SUBSET DOMAIN w : Starts(w) \subseteq R /\ Reaches(w, R) => R = DOMAIN w
  /\ Len(TopoOrder(w)) = Cardinality(DOMAIN w)

ASSUME GraphAssumption ==
  /\ Ids \in Seq(Range(Ids)) /\ Range(Ids) \intersect {None, "fail", "continue"} = {}
  /\ (StepCap = None \/ StepCap \in Nat) /\ MaxCrashes \in Nat
  /\ \A w \in Workflows :
       /\ DOMAIN w \subseteq Range(Ids)
       /\ \A s \in DOMAIN w : w[s] \in Step
       /\ Parsed(w) /\ Valid(w)

S == DOMAIN wf

-----------------------------------------------------------------------------
(* The run record.                                                         *)

\* The fired start node is done, its siblings are skipped.
NewRun(w, fired) ==
  LET status == [s \in DOMAIN w |->
                   IF s = fired THEN "done"
                   ELSE IF s \in Starts(w) THEN "skipped" ELSE "pending"]
  IN [status |-> status,
      forced |-> [s \in DOMAIN w |-> FALSE],
      holds |-> [s \in DOMAIN w |-> FALSE],   \* a guard's answer
      attempt |-> [s \in DOMAIN w |-> IF s = fired THEN 1 ELSE 0],
      count |-> 0,                            \* steps_run
      outcome |-> "live",
      ends |-> [s \in DOMAIN w |->            \* history: how a step has ended
                  IF Terminal(status[s]) THEN {status[s]} ELSE {}],
      routed |-> {},                          \* history: where edges have led
      asked |-> {},                           \* history: guarded steps whose guard
                                              \*   answered since they last ran
      replaying |-> {}]                       \* history: caught running by a crash,
                                              \*   and not started again yet

Over(r) == r.outcome # "live"

End(r, s, status) ==
  [r EXCEPT !.status[s] = status, !.count = @ + 1, !.ends[s] = @ \union {status}]

\* Mutant: the mark of a routed step is taken off when it starts.
Begin_Unforced(r, s) ==
  [r EXCEPT !.status[s] = "running", !.attempt[s] = @ + 1, !.replaying = @ \ {s},
            !.forced[s] = FALSE]

\* The mark of a routed step stays, for a replay to run it as routed.
Begin(r, s) ==
  [r EXCEPT !.status[s] = "running", !.attempt[s] = @ + 1, !.replaying = @ \ {s}]

Suspend(r, s) == [r EXCEPT !.status[s] = "suspended"]

\* The run ends, and every step that has not is cancelled.
Finish(r, outcome) ==
  [r EXCEPT !.outcome = outcome,
            !.status = [s \in DOMAIN @ |-> IF Terminal(@[s]) THEN @[s] ELSE "cancelled"]]

\* A routing edge: the target is pending again, and runs past its dependencies.
Route(r, t) ==
  [r EXCEPT !.status[t] = "pending", !.forced[t] = TRUE,
            !.routed = @ \union {t},
            !.replaying = @ \ {t},
            !.asked = IF r.status[t] \in {"pending", "pruned", "skipped"} THEN @ ELSE @ \ {t}]

-----------------------------------------------------------------------------
(* schedule: one pass over the graph.                                      *)

\* Mutant: the guard is not asked again once it has answered.
AskGuard_Once(w, r, s) ==
  LET g == w[s].guard IN
  IF r.status[g] # "pending" THEN [r EXCEPT !.forced[s] = FALSE]
  ELSE [r EXCEPT !.forced[s] = FALSE, !.forced[g] = TRUE]

\* A routed step waits for its guard's answer first.
AskGuard(w, r, s) ==
  LET g == w[s].guard IN
  IF r.status[g] \in {"running", "suspended"} THEN [r EXCEPT !.forced[s] = FALSE]
  ELSE [r EXCEPT !.forced[s] = FALSE, !.forced[g] = TRUE, !.status[g] = "pending",
                 !.replaying = @ \ {g}]

\* The step an on_timeout edge leads to, for that step and for its guard.
Parked(w, s) == IF Guarding(w, s) = {} THEN s ELSE CHOOSE t \in Guarding(w, s) : TRUE
IsParked(w, s) ==
  w[s].deps = {} /\ w[s].kind # "start" /\ Parked(w, s) \in TimeoutTargets(w)

\* Mutant: parked until it is routed to.
Unreached_Never(w, r, t) == FALSE

\* Every step with an edge to a parked step has ended, and none took it.
Unreached(w, r, t) ==
  /\ \A s \in DOMAIN w : RoutesTo(w, s, t) => Terminal(r.status[s])
  /\ ~r.forced[t]

\* Mutant: a pruned dependency satisfies, so it prunes nothing below it.
AllPruned_Never(w, r, s) == FALSE

\* What the dependencies of a step say of it.
AllPruned(w, r, s) == w[s].deps # {} /\ \A d \in w[s].deps : r.status[d] = "pruned"
DepsOk(w, r, s) ==
  \A d \in w[s].deps : Satisfied(r.status[d]) \/ r.status[d] = "pruned"

GuardHolds(w, r, s) ==
  w[s].guard # None => r.status[w[s].guard] = "done" /\ r.holds[w[s].guard]

\* What the pass does with a pending step, `yes' being those whose CEL
\* condition is true.  No branch of the code waits on a failed dependency
\* otherwise than on a pending one.
Verdict(w, yes, r, s) ==
  LET when == w[s].when => s \in yes IN
  CASE ~r.forced[s] /\ \E t \in Guarding(w, s) : Terminal(r.status[t]) -> "prune"
    [] r.forced[s] -> IF w[s].guard # None THEN "ask" ELSE IF when THEN "ready" ELSE "prune"
    [] OTHER ->
       CASE IsParked(w, s) -> IF Unreached(w, r, Parked(w, s)) THEN "prune" ELSE "wait"
         [] ~IsParked(w, s) /\ AllPruned(w, r, s) -> "prune"
         [] ~IsParked(w, s) /\ ~AllPruned(w, r, s) /\ ~DepsOk(w, r, s) -> "wait"
         [] OTHER -> IF when /\ GuardHolds(w, r, s) THEN "ready" ELSE "prune"

\* The pass so far: the run, the ready list, whether this round changed the run.
Visit(w, yes, p, s) ==
  IF p.run.status[s] # "pending" \/ s \in Range(p.ready) THEN p
  ELSE LET v == Verdict(w, yes, p.run, s) IN
       CASE v = "wait" -> p
         [] v = "ready" -> [p EXCEPT !.ready = Append(@, s)]
         [] v = "prune" -> [p EXCEPT !.run = End(@, s, "pruned"), !.changed = TRUE]
         [] v = "ask" -> [p EXCEPT !.run = AskGuard(w, @, s), !.changed = TRUE]

\* One round over the topological order.  (The choice from a set of one has TLC
\* compute the element once.)
Round(yes, p) ==
  LET upTo[i \in 0 .. Len(order)] ==
        IF i = 0 THEN [p EXCEPT !.changed = FALSE]
        ELSE CHOOSE q \in {Visit(wf, yes, before, order[i]) : before \in {upTo[i - 1]}} : TRUE
  IN upTo[Len(order)]

\* Rounds until one changes nothing.  Each one prunes a step or asks a guard,
\* so this many are enough; one more that changed the run would block
\* Schedule.
Pass(yes) ==
  LET rounds[i \in 0 .. 2 * Len(order) + 1] ==
        IF i = 0 THEN [run |-> run, ready |-> << >>, changed |-> TRUE]
        ELSE CHOOSE p \in {IF before.changed THEN Round(yes, before) ELSE before :
                             before \in {rounds[i - 1]}} : TRUE
  IN rounds[2 * Len(order) + 1]

-----------------------------------------------------------------------------
(* finish_step: how a step's answer moves the run.                         *)

\* A failure that is out of retries: the timeout's edge, else on_error.
Failed(w, r, s, status) ==
  LET ended == End(r, s, status) IN
  IF status = "timeout" /\ w[s].onTimeout # None THEN Route(ended, w[s].onTimeout)
  ELSE CASE w[s].onError = "fail" -> Finish(ended, "failed")
         [] w[s].onError = "continue" ->
              [ended EXCEPT !.status[s] = "done", !.ends[s] = @ \union {"done"}]
         [] OTHER -> Route(ended, w[s].onError)

\* A retry, at once or after a backoff.
AtOnce(r, s) == [r EXCEPT !.status[s] = "pending"]
Retried(r, s) == {AtOnce(r, s), Suspend(r, s)}

\* The records a failure may leave: a retry, or the failure's own end.
Failures(w, r, s, status) ==
  IF r.attempt[s] <= w[s].retry THEN Retried(r, s) ELSE {Failed(w, r, s, status)}

\* A guard answers whether its step may run.
Answers(w, r, s) ==
  IF w[s].kind # "guard" THEN {End(r, s, "done")}
  ELSE {[End(r, s, "done") EXCEPT !.holds[s] = h, !.asked = @ \union Guarding(w, s)] :
          h \in BOOLEAN}

\* Mutant: the cases nobody chose are left as they are.
Pruned_None(r, arms) == r

\* The chosen case runs past its dependencies; the others, if still pending,
\* are pruned.  No case and no default: all of them are, unless that fails.
Pruned(r, arms) ==
  LET left == {s \in arms : r.status[s] = "pending"} IN
  [r EXCEPT !.status = [s \in DOMAIN @ |-> IF s \in left THEN "pruned" ELSE @[s]],
            !.ends = [s \in DOMAIN @ |-> IF s \in left THEN @[s] \union {"pruned"} ELSE @[s]]]

SwitchEnds(w, r, s) ==
  {End(Route(Pruned(r, w[s].cases \ {t}), t), s, "done") : t \in w[s].cases} \union
  {End(Pruned(r, w[s].cases), s, "done")}

\* The outcomes a finish step may declare.
Declared == {"completed", "refused", "cancelled", "failed"}

\* How a step that computes in place succeeds; a start node an edge leads to
\* is not executable.
Results(w, r, s) ==
  CASE w[s].kind = "switch" -> SwitchEnds(w, r, s)
    [] w[s].kind = "finish" -> {Finish(End(r, s, "done"), o) : o \in Declared}
    [] w[s].kind = "assign" -> {End(r, s, "done")}
    [] w[s].kind = "start" -> {}

-----------------------------------------------------------------------------
Init ==
  /\ wf \in Workflows /\ order = TopoOrder(wf)
  /\ \E fired \in Starts(wf) : run = NewRun(wf, fired)
  /\ saved = run
  /\ queue = << >>
  /\ flight = [s \in S |-> 0]
  /\ crashes = 0

\* The run is r from here on, and a run that has ended takes no more steps.
Becomes(r, rest, out) ==
  /\ run' = r
  /\ queue' = IF Over(r) THEN << >> ELSE rest
  /\ flight' = IF Over(r) THEN [s \in S |-> 0] ELSE out


\* Nothing ready and nothing in flight: the run ends, as a failure if a step
\* failed on the way.
Concluded(p) ==
  LET status == p.run.status IN
  IF p.ready # << >> \/ \E s \in DOMAIN status : status[s] \in {"running", "suspended"}
  THEN p.run
  ELSE Finish(p.run, IF \E s \in DOMAIN status : Unsuccessful(status[s])
                     THEN "failed" ELSE "stalled")

\* The run has used up its steps, if they are limited.
CapReached == StepCap # None /\ run.count >= StepCap

\* schedule_run, on the tick.
Schedule ==
  /\ ~Over(run) /\ queue = << >> /\ ~CapReached
  /\ \E yes \in SUBSET {s \in S : wf[s].when} :
       \E p \in {Pass(yes)} :
         \E r \in {Concluded(p)} : ~p.changed /\ Becomes(r, p.ready, flight)
  /\ saved' = IF queue' = << >> THEN run' ELSE saved
  /\ UNCHANGED <<wf, order, crashes>>

\* A CEL condition the pass evaluates is an error: the run fails.
ScheduleFails ==
  /\ ~Over(run) /\ queue = << >> /\ ~CapReached
  /\ \E s \in S : /\ run.status[s] = "pending"
                  /\ Verdict(wf, {}, run, s) # Verdict(wf, S, run, s)
  /\ Becomes(Finish(run, "failed"), << >>, flight)
  /\ saved' = run' /\ UNCHANGED <<wf, order, crashes>>

\* The run's deadline, its limit of tokens, workflow.cancel, or a definition
\* that is gone.
Stop ==
  /\ ~Over(run) /\ queue = << >>
  /\ \E outcome \in {"failed", "cancelled", "refused"} : Becomes(Finish(run, outcome), << >>, flight)
  /\ saved' = run' /\ UNCHANGED <<wf, order, crashes>>

Exhausted ==
  /\ ~Over(run) /\ queue = << >> /\ CapReached
  /\ Becomes(Finish(run, "failed"), << >>, flight)
  /\ saved' = run' /\ UNCHANGED <<wf, order, crashes>>

\* A step in flight has been started, and its start checkpointed.
Launch(s) ==
  /\ run.status[s] = "pending" /\ wf[s].kind \in {"effect", "guard"}
  /\ Becomes(Begin(run, s), Tail(queue), [flight EXCEPT ![s] = @ + 1])
  /\ saved' = run'

Await(s) ==
  /\ run.status[s] = "pending" /\ wf[s].kind = "wait"
  /\ Becomes(Suspend(Begin(run, s), s), Tail(queue), flight)
  /\ saved' = run'

\* A step that computes in place; one without effects rides on the checkpoint
\* of the pass, unless it is to be retried.
Compute(s) ==
  /\ run.status[s] = "pending" /\ wf[s].kind \in {"assign", "switch", "finish", "start"}
  /\ \E r \in {Begin(run, s)} :
       \E next \in Results(wf, r, s) \union Failures(wf, r, s, "failed") :
         Becomes(next, Tail(queue), flight)
  /\ saved' = IF \/ queue' = << >> \/ wf[s].kind \in {"finish", "start"} \/ Over(run')
                 \/ run' \in Retried(Begin(run, s), s)
              THEN run' ELSE saved

\* Not pending any more: another step of the list has dealt with it.
PassOver(s) ==
  /\ run.status[s] # "pending"
  /\ Becomes(run, Tail(queue), flight)
  /\ saved' = IF queue' = << >> THEN run' ELSE saved

Execute ==
  /\ queue # << >>
  /\ LET s == Head(queue) IN Launch(s) \/ Await(s) \/ Compute(s) \/ PassOver(s)
  /\ UNCHANGED <<wf, order, crashes>>

\* The checkpoint of an answer.  A retry at once does not mark the record as
\* changed, so it is written only if something else did.
Checkpointed(s) ==
  \/ saved' = run'
  \/ run' = AtOnce(run, s) /\ saved' = saved

\* An answer is applied to the step whatever has become of it since.  A turn may
\* end at its deadline, told from a failure only where that has an edge.
StepDone(s) ==
  /\ queue = << >> /\ flight[s] > 0
  /\ \E next \in UNION {Answers(wf, run, s), Failures(wf, run, s, "failed"),
                        IF wf[s].onTimeout = None THEN {} ELSE Failures(wf, run, s, "timeout")} :
       Becomes(next, << >>, [flight EXCEPT ![s] = @ - 1])
  /\ Checkpointed(s) /\ UNCHANGED <<wf, order, crashes>>

\* What a wait waits for comes, fails or is late.
WaitOver(s) ==
  /\ queue = << >> /\ run.status[s] = "suspended" /\ wf[s].kind = "wait"
  /\ \E next \in {End(run, s, "done")} \union Failures(wf, run, s, "failed")
                 \union Failures(wf, run, s, "timeout") :
       Becomes(next, << >>, flight)
  /\ Checkpointed(s) /\ UNCHANGED <<wf, order, crashes>>

\* The timer of a retry's backoff.
Retry(s) ==
  /\ queue = << >> /\ run.status[s] = "suspended" /\ wf[s].kind # "wait"
  /\ Becomes(AtOnce(run, s), << >>, flight)
  /\ saved' = run' /\ UNCHANGED <<wf, order, crashes>>

\* A step left running is replayed, skipped or failed; on_error has no part.
Replayed(w, r) ==
  LET left == {s \in DOMAIN w : r.status[s] = "running"}
      how == [s \in left |-> CASE w[s].onReplay = "retry" -> "pending"
                               [] w[s].onReplay = "skip" -> "skipped"
                               [] w[s].onReplay = "fail" -> "failed"]
      ended == {s \in left : Terminal(how[s])}
  IN [r EXCEPT !.status = [s \in DOMAIN @ |-> IF s \in left THEN how[s] ELSE @[s]],
               !.ends = [s \in DOMAIN @ |-> IF s \in ended THEN @[s] \union {how[s]} ELSE @[s]],
               !.count = @ + Cardinality(ended),
               !.replaying = left \ ended]

\* The record a life that ends leaves: the last checkpoint, or the one that
\* says of a step with effects that it has begun.
LeftBehind ==
  {saved} \union
  {Begin(run, s) : s \in {x \in S : /\ queue # << >> /\ x = Head(queue)
                                    /\ run.status[x] = "pending"
                                    /\ wf[x].kind \in {"wait", "finish", "start"}}}

Crash ==
  /\ ~Over(run) /\ crashes < MaxCrashes /\ crashes' = crashes + 1
  /\ \E left \in LeftBehind : run' = Replayed(wf, left)
  /\ saved' = run'
  /\ queue' = << >> /\ flight' = [s \in S |-> 0]
  /\ UNCHANGED <<wf, order>>

Ended == Over(run) /\ UNCHANGED vars

Next ==
  \/ Schedule \/ ScheduleFails \/ Stop \/ Exhausted \/ Execute \/ Crash \/ Ended
  \/ \E s \in S : StepDone(s) \/ WaitOver(s) \/ Retry(s)

Spec == Init /\ [][Next]_vars

\* The loop ticks, and what a step waits for is answered or times out.
FairSpec ==
  /\ Spec /\ WF_vars(Schedule \/ Exhausted \/ Execute)
  /\ WF_vars(\E s \in S : StepDone(s) \/ WaitOver(s) \/ Retry(s))

-----------------------------------------------------------------------------
(* Properties.                                                             *)

Outcomes == {"live", "completed", "failed", "cancelled", "refused", "stalled"}

Record(w) ==
  [status : [DOMAIN w -> Statuses], forced : [DOMAIN w -> BOOLEAN],
   holds : [DOMAIN w -> BOOLEAN], attempt : [DOMAIN w -> Nat], count : Nat,
   outcome : Outcomes, ends : [DOMAIN w -> SUBSET Statuses],
   routed : SUBSET DOMAIN w, asked : SUBSET DOMAIN w, replaying : SUBSET DOMAIN w]

\* The run record and the pass have their types, only work that leaves the
\* process is in flight, and a ready list names no step twice: schedule looks
\* at its list before it adds to it.
TypeOK ==
  /\ wf \in Workflows /\ order \in Seq(S)
  /\ run \in Record(wf) /\ saved \in Record(wf)
  /\ queue \in Seq(S) /\ IsInjective(queue)
  /\ flight \in [S -> Nat]
  /\ \A s \in S : flight[s] > 0 => wf[s].kind \in {"effect", "guard"}
  /\ crashes \in 0 .. MaxCrashes

Starting(s) == run'.attempt[s] > run.attempt[s]

\* No edge names a decision guard.  validate_graph would let one through.
GuardsPrivate(w) == \A s, t \in DOMAIN w : RoutesTo(w, s, t) => w[t].kind # "guard"

\* A routing edge runs its target past its dependencies, never past its guard:
\* a guarded step starts only when its guard has answered yes, and answered
\* since the step last ran, whichever edge has led back to it (schedule,
\* route_failure, switch, on_timeout).
GuardRespected ==
  [][\A s \in S : Starting(s) /\ GuardsPrivate(wf) /\ wf[s].guard # None =>
       GuardHolds(wf, run, s) /\ s \in run.asked]_vars

\* The tail of a branch nobody chose never runs: a step no edge has led to
\* starts only after every dependency has ended, one of them done or skipped,
\* even from a ready list an earlier step of the list has made stale.
NoEarlyStart ==
  [][\A s \in S : Starting(s) /\ GuardsPrivate(wf) =>
       \/ ({s} \union Guarding(wf, s)) \intersect run.routed # {}
       \/ /\ \A d \in wf[s].deps : run.ends[d] # {}
          /\ \E d \in wf[s].deps : run.ends[d] \intersect {"done", "skipped"} # {}]_vars

\* Only the switch leads to its arms, they wait for it, nothing leads back to
\* it, and it does not go on when it fails.
Exclusive(w, s) ==
  /\ GuardsPrivate(w) /\ w[s].onError # "continue" /\ s \notin w[s].cases
  /\ \A t \in w[s].cases : s \in w[t].deps \/ (w[t].guard # None /\ s \in w[w[t].guard].deps)
  /\ \A x \in DOMAIN w : \A t \in w[s].cases \union {s} : RoutesTo(w, x, t) => x = s

ArmsRun(s) == {t \in wf[s].cases : run.attempt[t] > 0}

\* At most one arm of a switch that has not been pruned ever runs, whatever
\* the order of completions and across restarts; exclusive_by_switch lets two
\* arms write one key on the strength of it.
OneArmRuns ==
  \A s \in S : wf[s].kind = "switch" /\ "pruned" \notin run.ends[s] /\ Exclusive(wf, s) =>
    Cardinality(ArmsRun(s)) <= 1

\* What the comment on exclusive_by_switch says of every switch.  Even where no
\* other edge leads to the arms it is false of a switch that fails under
\* `on_error: continue', and of a pruned one whose arms have another dependency:
\* the arms are ordinary dependents then, and all run.
ExclusiveBySwitch ==
  \A s \in S : Cardinality(ArmsRun(s)) <= 1

\* A step waits for its dependencies, and a parked one for every step with an
\* edge to it; some steps may wait for one another.
WaitsInCircle(w) ==
  \E C \in (SUBSET DOMAIN w) \ {{}} :
    \A s \in C : \E d \in C :
      d \in w[s].deps \/ (IsParked(w, s) /\ RoutesTo(w, d, Parked(w, s)))

\* A run that ends stalled has nothing left to run: every step has ended or
\* been pruned, so no step was waiting for something that cannot happen.
\* (Finishing the run cancels what is left.)
StalledMeansExhausted ==
  run.outcome = "stalled" /\ ~WaitsInCircle(wf) => \A s \in S : run.status[s] # "cancelled"

\* The same without the exception: no step is left parked for good.
NeverParkedForGood ==
  run.outcome = "stalled" => \A s \in S : run.status[s] # "cancelled"

\* A failed step with `on_error: fail' fails the run at once.
FailureFailsRun ==
  \A s \in S : run.status[s] = "failed" /\ wf[s].onError = "fail" => Over(run)

\* A routed step caught running by a crash is replayed as routed: it is not
\* pruned for the dependencies the edge had passed over (begin_step keeps the
\* mark).  Its own condition or guard, asked again, may still prune it, and so
\* may a switch that has it as a case and now chooses another.
ReplayedAsRouted ==
  [][\A s \in run.replaying \intersect run.routed :
       run.status[s] # "pruned" /\ run'.status[s] = "pruned" =>
         \/ wf[s].when \/ ~GuardHolds(wf, run, s)
         \/ \E x \in S : s \in wf[x].cases /\ Starting(x)]_vars


\* The limit of a run whose definition and instance set none, as the
\* accessor RunLimits::steps and docs/budgets.md have it.
DefaultSteps == 500

\* What the comment in schedule_run and docs/budgets.md say: a definition silent
\* about limits is still bounded, so no pass readies a step of a run that has
\* taken the default number.  schedule_run reads the option itself, not the
\* default, and a step that keeps failing with an edge to itself never ends.
SilentRunBounded ==
  [][StepCap = None /\ run.count >= DefaultSteps => queue' = << >>]_vars
=============================================================================
