------------------------------ MODULE MCRouting ------------------------------
(***************************************************************************)
(* How publications find their receivers: in a node (Router), and from     *)
(* node to node, where nodes restart and connections are lost              *)
(* (SequenceForwarding).  The two share no state, so each behaviour is one *)
(* of part; the other stays as it is.                                      *)
(***************************************************************************)
EXTENDS MCRouter, MCSequenceForwarding

VARIABLE part

MCInit == part \in {"matching", "restart"} /\ Init /\ FInit

\* Bound: not every node restarts.
OneNodeStays == \E n \in FNode : epoch'[n] = 1

MCNext ==
    \/ part = "matching" /\ Next /\ UNCHANGED <<fvars, part>>
    \/ part = "restart" /\ FNext /\ OneNodeStays /\ UNCHANGED <<vars, part>>

MCSpec == MCInit /\ [][MCNext]_<<vars, fvars, part>>

\* Two receivers of a node, and the two nodes that do not publish, do the same.
RoutingSymmetry == {f @@ g : f \in MCSymmetry, g \in Permutations({node2, node3})}
=============================================================================
