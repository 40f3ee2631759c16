----------------------------- MODULE MCConductor -----------------------------
(* Small task graphs for the Conductor. *)
EXTENDS Conductor

(* Two independent steps and one that reads both replies. *)
JoinDeps == <<{}, {}, {1, 2}>>

(* A step and one that reads its reply. *)
ChainDeps == <<{}, {1}>>

RetryFirst == [n \in Nodes |-> IF n = 1 THEN 1 ELSE 0]
==============================================================================
