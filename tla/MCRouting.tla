------------------------------ MODULE MCRouting ------------------------------
(***************************************************************************)
(* Instance of Routing for TLC: three nodes, two of them with a single     *)
(* slot, so that they are full long before the third reaches the bound and *)
(* the spill happens, and a memory one smaller than the number of keys.    *)
(* Two keys rank the nodes one way and two the other, so that the keys of  *)
(* each pair are interchangeable.                                          *)
(***************************************************************************)
EXTENDS Routing, TLC

CONSTANTS n1, n2, n3, k1, k2, k3, k4

Index == n1 :> 1 @@ n2 :> 2 @@ n3 :> 3

MCScore ==
  [k \in Keys |-> [n \in Nodes |-> IF k \in {k1, k2} THEN Index[n] ELSE 4 - Index[n]]]

MCLimits == [n \in Nodes |-> IF n = n3 THEN 3 ELSE 1]

KeySymmetry == Permutations({k1, k2}) \cup Permutations({k3, k4})
=============================================================================
