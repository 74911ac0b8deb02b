---------------------------- MODULE MCFlowSelect ----------------------------
(* FlowSelect for TLC: nothing distinguishes one node from another.        *)
EXTENDS FlowSelect, TLC

Symmetry == Permutations(Node)
=============================================================================
