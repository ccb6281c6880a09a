------------------------------ MODULE MCRouter ------------------------------
(***************************************************************************)
(* Instances of Router for TLC: two nodes of one group that the two keys   *)
(* rank in opposite orders, with one slot each.                            *)
(***************************************************************************)
EXTENDS Router

CONSTANTS n1, n2, k1, k2, r1

MCNodeList == <<n1, n2>>

MCScore ==
  [k \in Keys |-> [n \in Nodes |-> IF (k = k1) = (n = n1) THEN 2 ELSE 1]]

OneSlot  == [n \in Nodes |-> 1]
TwoSlots == [n \in Nodes |-> IF n = n1 THEN 2 ELSE 1]

MCKeyOf  == [r \in Requests |-> IF r = r1 THEN k1 ELSE k2]
SameKey  == [r \in Requests |-> k1]
MCGroup  == [n \in Nodes |-> "local"]
MCRole   == [n \in Nodes |-> ""]
MCTarget == [r \in Requests |-> ""]
=============================================================================
