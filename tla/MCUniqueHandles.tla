--------------------------- MODULE MCUniqueHandles ---------------------------
(* Instances of UniqueHandles for TLC. *)
EXTENDS UniqueHandles

CONSTANTS p, q

\* The first three nodes are p's, the fourth is q's.
TwoHomes == [n \in Node |-> IF n <= 3 THEN p ELSE q]
OneHome == [n \in Node |-> p]
=============================================================================
