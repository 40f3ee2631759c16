----------------------------- MODULE MCSessionTurns -----------------------------
(***************************************************************************)
(* Small instances of SessionTurns.                                        *)
(***************************************************************************)
EXTENDS SessionTurns

None == {}
FirstTwo == {1, 2}
LastOne == {MaxMessages}

Quietly == {"stop", "handoff", "error"}
================================================================================
