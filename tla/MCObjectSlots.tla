---------------------------- MODULE MCObjectSlots ----------------------------
(* Instances of ObjectSlots for TLC. *)
EXTENDS ObjectSlots, TLC

\* Nodes and variables of one type are alike: runs may permute them.
SlotSymmetry == Permutations(Node) \cup Permutations(NodeVar) \cup Permutations(StackVar)
=============================================================================
