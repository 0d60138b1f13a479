------------------------------ MODULE Delivery ------------------------------
(***************************************************************************)
(* What the durable inbox promises, with no queue, no process and no       *)
(* crash: an accepted event is pending until something has been done about *)
(* it, and only then may its record go.  Doing it twice is allowed (the    *)
(* same `handled' twice is a stutter), losing it is not.                   *)
(*                                                                         *)
(* The inbox contract of state/mod.rs (inbox_put, inbox_done,              *)
(* inbox_pending) read as a specification; module Inbox is shown to        *)
(* implement it.                                                           *)
(***************************************************************************)

CONSTANT Events

VARIABLES pending,  \* events whose record is in the store
          handled   \* events something has been done about

dvars == <<pending, handled>>

DInit == pending = {} /\ handled = {}

Accept(e) == /\ e \notin pending \cup handled
             /\ pending' = pending \cup {e}
             /\ UNCHANGED handled

Handle(e) == /\ e \in pending
             /\ handled' = handled \cup {e}
             /\ UNCHANGED pending

Forget(e) == /\ e \in pending \cap handled
             /\ pending' = pending \ {e}
             /\ UNCHANGED handled

\* What is done about an event may be another event.
Relay(e, f) == /\ e \in pending
               /\ f \notin pending \cup handled
               /\ handled' = handled \cup {e}
               /\ pending' = pending \cup {f}

DNext == \E e \in Events : \/ Accept(e) \/ Handle(e) \/ Forget(e)
                          \/ \E f \in Events : Relay(e, f)

DSpec == DInit /\ [][DNext]_dvars
=============================================================================
