------------------------------ MODULE MCGraph -------------------------------
(***************************************************************************)
(* Every graph of a start s, three steps a, b, c and a finish f, with the  *)
(* dependencies of b and c, one routing edge (or switch, wait or policy)    *)
(* and one guard or condition chosen in every way that loads.  b.when and  *)
(* c.when are decision guards; ids are in the order of the map.            *)
(***************************************************************************)
EXTENDS Graph

IdsDef == <<"a", "b", "b.when", "c", "c.when", "f", "s">>
GuardOf == [b |-> "b.when", c |-> "c.when"]

Plain(kind, deps) ==
  [kind |-> kind, deps |-> deps, when |-> FALSE, guard |-> None, onError |-> "fail",
   onTimeout |-> None, cases |-> {}, retry |-> 0, onReplay |-> "retry"]

\* The dependencies of b and c; b may be a root, for an on_timeout edge.
Shapes == (SUBSET {"s", "a"}) \X ((SUBSET {"s", "a", "b"}) \ {{}})

Shape(d) ==
  [s |-> Plain("start", {}), a |-> Plain("effect", {"s"}), b |-> Plain("effect", d[1]),
   c |-> Plain("assign", d[2]), f |-> Plain("finish", {"b", "c"})]

\* What is added to the shape: an edge from a step to another, a switch, a wait
\* (in `circle', with an edge back to the step it parks), an effect with a
\* deadline, a sibling start, or another policy for a failure or a replay.
Edges ==
  {<<"none", "a", "a">>, <<"start", "a", "a">>, <<"continue", "a", "a">>,
   <<"retry", "b", "b">>, <<"retry", "c", "c">>, <<"skip", "b", "b">>, <<"fail", "b", "b">>,
   <<"switch", "a", "fail">>, <<"switch", "a", "b">>, <<"switch", "a", "continue">>,
   <<"timeout", "a", "b">>, <<"late", "a", "b">>, <<"circle", "b", "b">>, <<"circle", "c", "b">>} \union
  ({"goto"} \X {"a", "b", "c"} \X {"a", "b", "c", "b.when", "c.when"}) \union
  {<<"timeout", "a", "b.when">>, <<"goto", "a", "s">>, <<"goto", "c", "s">>}

Wait(w, t) == [w EXCEPT !["a"].kind = "wait", !["a"].onTimeout = t]

WithEdge(w, e) ==
  CASE e[1] = "none" -> w
    [] e[1] = "start" -> [w EXCEPT !["a"].kind = "start", !["a"].deps = {}]
    [] e[1] = "continue" -> [w EXCEPT ![e[2]].onError = "continue"]
    [] e[1] = "retry" -> [w EXCEPT ![e[2]].retry = 1]
    [] e[1] \in {"skip", "fail"} -> [w EXCEPT ![e[2]].onReplay = e[1]]
    [] e[1] = "switch" -> [w EXCEPT !["a"].kind = "switch", !["a"].cases = {"b", "c"},
                                    !["a"].onError = e[3]]
    [] e[1] = "timeout" -> Wait(w, e[3])
    [] e[1] = "late" -> [w EXCEPT ![e[2]].onTimeout = e[3]]
    [] e[1] = "circle" -> [Wait(w, e[3]) EXCEPT ![e[2]].onError = e[3]]
    [] e[1] = "goto" -> [w EXCEPT ![e[2]].onError = e[3]]

\* A condition of c, one of a itself, or a decision guard of b or c.
Guards == {"none", "when", "choice", "b", "c"}

\* A decision guard takes over its step's dependencies.
WithGuard(w, g) ==
  CASE g = "none" -> w
    [] g = "choice" -> [w EXCEPT !["a"].when = TRUE]
    [] g = "when" -> [w EXCEPT !["c"].when = TRUE]
    [] OTHER -> [x \in DOMAIN w \union {GuardOf[g]} |->
                   IF x = g THEN [w[g] EXCEPT !.guard = GuardOf[g], !.deps = {GuardOf[g]}]
                   ELSE IF x = GuardOf[g] THEN Plain("guard", w[g].deps) ELSE w[x]]

WorkflowsDef ==
  {w \in {WithGuard(WithEdge(Shape(d), e), g) : d \in Shapes, e \in Edges, g \in Guards} :
     Valid(w)}

\* A step that is tried again whenever it fails.
LoopDef ==
  {[s |-> Plain("start", {}), a |-> [Plain("effect", {"s"}) EXCEPT !.onError = "a"],
    f |-> Plain("finish", {"a"})]}
=============================================================================
