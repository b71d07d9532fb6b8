----------------------- MODULE MCSequenceForwarding -------------------------
(***************************************************************************)
(* Networks for TLC: a triangle, the smallest one with a cycle, and a      *)
(* single connection.                                                      *)
(***************************************************************************)
EXTENDS SequenceForwarding

CONSTANTS node1, node2, node3

Triangle == {<<x, y>> \in FNode \X FNode : x # y}
Pair == {<<node1, node2>>, <<node2, node1>>}
=============================================================================
