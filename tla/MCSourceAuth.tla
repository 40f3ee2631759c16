----------------------------- MODULE MCSourceAuth -----------------------------
(* Two sessions, every kind of provider, and everything that may go wrong. *)
EXTENDS SourceAuth

AllKinds == {"google", "slack", "microsoft"}
AllMishaps == {"lost", "signout", "crash", "failed", "refused", "thrown", "ended", "restart", "alone"}
=============================================================================
