---------------------------- MODULE MCLinkedStack ----------------------------
(* Instances of LinkedStack for TLC. *)
EXTENDS LinkedStack

\* Nodes 1, 2 and 3, 4 are equal under the comparator.
PairedValues == [n \in Node |-> (n + 1) \div 2]
=============================================================================
