------------------------------ MODULE MCTransport ------------------------------
(* One application and one server, with everything that may go wrong. *)
EXTENDS Transport

AllMishaps == MishapKinds
================================================================================
