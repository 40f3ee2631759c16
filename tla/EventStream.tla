------------------------------ MODULE EventStream ------------------------------
(***************************************************************************)
(* What the transport promises an application: it learns of every pushed   *)
(* event exactly once and in the order of the pushes, or is told to load   *)
(* its state anew.  How connections come and go is left out.               *)
(***************************************************************************)
EXTENDS Naturals

VARIABLES
  published,  \* events pushed so far, numbered from 1
  view,       \* the last event the application's state reflects
  refreshes   \* how often it loaded its state anew

vars == <<published, view, refreshes>>

Init == published = 0 /\ view = 0 /\ refreshes = 0

Publish == published' = published + 1 /\ UNCHANGED <<view, refreshes>>

(* The application handles the next event, never a later or an earlier one. *)
Deliver ==
  /\ view < published
  /\ view' = view + 1
  /\ UNCHANGED <<published, refreshes>>

(* What it loads is at least as new as what it had. *)
Refresh ==
  /\ view' \in view .. published
  /\ refreshes' = refreshes + 1
  /\ UNCHANGED published

Next == Publish \/ Deliver \/ Refresh

Spec == Init /\ [][Next]_vars
================================================================================
