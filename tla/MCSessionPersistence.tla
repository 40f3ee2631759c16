------------------------- MODULE MCSessionPersistence -------------------------
(* One session, two values of its metadata. *)
EXTENDS SessionPersistence

TwoMetas == {"draft", "final"}
==============================================================================
