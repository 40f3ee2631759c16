-------------------------------- MODULE Picking --------------------------------
(***************************************************************************)
(* What the code asks of arrays: the elements at some of the positions, in *)
(* the order they have (Array.prototype.filter, and slice after it).       *)
(***************************************************************************)
EXTENDS Naturals, FiniteSets

(* The numbers of K, the smallest first. *)
Ascending(K) ==
  [k \in 1 .. Cardinality(K) |-> CHOOSE i \in K : Cardinality({j \in K : j <= i}) = k]

(* The elements of s at the positions K. *)
Picked(s, K) == [k \in 1 .. Cardinality(K) |-> s[Ascending(K)[k]]]
================================================================================
