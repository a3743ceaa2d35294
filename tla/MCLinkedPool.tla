---------------------------- MODULE MCLinkedPool ----------------------------
(* Instances of LinkedPool for TLC. *)
EXTENDS LinkedPool, TLC

\* Threads run the same program: runs may permute them.
ThreadSymmetry == Permutations(Thread)
=============================================================================
