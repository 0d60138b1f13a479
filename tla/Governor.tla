------------------------------ MODULE Governor ------------------------------
(***************************************************************************)
(* The budget governor (governor/mod.rs): one scope with one window and a  *)
(* lifetime ceiling.  A unit of work reserves its estimate before it       *)
(* starts; its end settles the reservation with what it used, or releases  *)
(* it.  Time is the index of the current window; a window is rolled, and   *)
(* its counters cleared, when an admission or a charge next looks at it.   *)
(*                                                                         *)
(* Abstracted: several windows and sub-scopes (each is checked and         *)
(* reserved like this one); the pacing of `slow' and the time a wait ends  *)
(* (a unit that waits asks again); the model `degrade' changes to.         *)
(***************************************************************************)
EXTENDS Naturals

CONSTANTS
  Units,        \* units of work: a turn of a conversation, a step's turn, a think
  Est,          \* the tokens a unit reserves
  WindowTokens, \* budget.windows[].tokens
  WindowCalls,  \* budget.windows[].requests
  Lifetime,     \* budget.lifetime_tokens, 0 for none
  Tactic,       \* budget.on_exhausted; a `degrade' that names no model is a `wait'
  MaxIndex      \* bound: windows

ASSUME BudgetAssumption ==
  /\ Est \in [Units -> Nat]
  /\ WindowTokens \in Nat /\ WindowCalls \in Nat /\ Lifetime \in Nat
  /\ Tactic \in {"wait", "degrade", "refuse"}
  /\ MaxIndex \in Nat

VARIABLES
  now,       \* the index of the window that is open by the clock
  win,       \* WindowState
  spent,     \* Scope.lifetime_used
  reserved,  \* the units with a reservation (Governor.reservations)
  stored,    \* the counters as the manifest has them
  madeIn,    \* history: the window each reservation was made in
  foreign    \* history: this window counts what was not reserved in it: charged,
             \* reserved in another window, above the estimate, of another life

gvars == <<now, win, spent, reserved, stored, madeIn, foreign>>

WindowState == [index : Nat, tokens : Nat, requests : Nat, reserved : Nat]

Fresh(i) == [index |-> i, tokens |-> 0, requests |-> 0, reserved |-> 0]
Monus(a, b) == IF a > b THEN a - b ELSE 0

GTypeOK ==
  /\ now \in 0..MaxIndex
  /\ win \in WindowState
  /\ spent \in Nat
  /\ reserved \subseteq Units
  /\ stored \in [win : WindowState, spent : Nat]
  /\ madeIn \in [Units -> 0..MaxIndex]
  /\ foreign \in BOOLEAN

GInit ==
  /\ now = 0 /\ win = Fresh(0) /\ spent = 0 /\ reserved = {}
  /\ stored = [win |-> win, spent |-> 0]
  /\ madeIn = [u \in Units |-> 0] /\ foreign = FALSE

\* Window::roll: a window that is over is forgotten, what is reserved in it too.
RolledOf(w) == IF w.index = now THEN w ELSE Fresh(now)
Rolled == RolledOf(win)

\* Scope::check: what keeps an estimate from being reserved in window w.
LifetimeOver(u) == Lifetime > 0 /\ spent + Est[u] > Lifetime
WindowOver_SpentOnly(w, u) == \/ Est[u] > Monus(WindowTokens, w.tokens)
                              \/ w.requests >= WindowCalls
WindowOver(w, u) == \/ Est[u] > Monus(WindowTokens, w.tokens + w.reserved)
                    \/ w.requests >= WindowCalls

\* Governor::admit, the verdict.
Verdict(u) ==
  CASE LifetimeOver(u) -> "exhausted"
    [] ~LifetimeOver(u) /\ ~WindowOver(Rolled, u) -> "ok"
    [] OTHER -> IF Tactic = "degrade" THEN "ok" ELSE Tactic

\* Governor::reserve_all.
Reserve(u) ==
  /\ win' = [Rolled EXCEPT !.reserved = @ + Est[u], !.requests = @ + 1]
  /\ reserved' = reserved \cup {u}
  /\ madeIn' = [madeIn EXCEPT ![u] = now]
  /\ foreign' = (foreign /\ win.index = now)
  /\ UNCHANGED <<now, spent, stored>>

\* An admission that leaves nothing reserved: refused, put off, or a call of a
\* running worker, released as it is granted (on_budget_request).
AskOnly ==
  /\ win' = Rolled
  /\ foreign' = (foreign /\ win.index = now)
  /\ UNCHANGED <<now, spent, reserved, stored, madeIn>>

\* Governor::settle.  The window is not rolled first: the usage goes to the one
\* that was last looked at.
Settle(u, used) ==
  IF u \in reserved
  THEN /\ win' = [win EXCEPT !.reserved = Monus(@, Est[u]), !.tokens = @ + used]
       /\ spent' = spent + used
       /\ reserved' = reserved \ {u}
       /\ foreign' = (foreign \/ madeIn[u] # win.index \/ used > Est[u])
       /\ madeIn' = [madeIn EXCEPT ![u] = 0]
       /\ UNCHANGED <<now, stored>>
  ELSE UNCHANGED gvars

Release_Unsaturated(u) ==
  IF u \in reserved
  THEN /\ win' = [win EXCEPT !.reserved = @ - Est[u], !.requests = Monus(@, 1)]
       /\ reserved' = reserved \ {u}
       /\ foreign' = (foreign \/ madeIn[u] # win.index)
       /\ madeIn' = [madeIn EXCEPT ![u] = 0]
       /\ UNCHANGED <<now, spent, stored>>
  ELSE UNCHANGED gvars

\* Governor::release.
Release(u) ==
  IF u \in reserved
  THEN /\ win' = [win EXCEPT !.reserved = Monus(@, Est[u]), !.requests = Monus(@, 1)]
       /\ reserved' = reserved \ {u}
       /\ foreign' = (foreign \/ madeIn[u] # win.index)
       /\ madeIn' = [madeIn EXCEPT ![u] = 0]
       /\ UNCHANGED <<now, spent, stored>>
  ELSE UNCHANGED gvars

\* Governor::charge: usage that was never reserved.
Charge(used) ==
  /\ win' = [Rolled EXCEPT !.tokens = @ + used]
  /\ spent' = spent + used
  /\ foreign' = TRUE
  /\ UNCHANGED <<now, reserved, stored, madeIn>>

\* Time enters the next window.
NextWindow ==
  /\ now < MaxIndex
  /\ now' = now + 1
  /\ UNCHANGED <<win, spent, reserved, stored, madeIn, foreign>>

\* Governor::to_value: what is reserved is not on record.
Recorded == [win |-> [win EXCEPT !.reserved = 0], spent |-> spent]

\* A checkpoint puts the counters into the manifest.
Record ==
  /\ stored' = Recorded
  /\ UNCHANGED <<now, win, spent, reserved, madeIn, foreign>>

\* Governor::restore in a new process: adopted, and rolled.
Adopt ==
  /\ win' = RolledOf(stored.win)
  /\ spent' = stored.spent
  /\ reserved' = {}
  /\ foreign' = TRUE
  /\ madeIn' = [u \in Units |-> 0]
  /\ UNCHANGED <<now, stored>>
=============================================================================
