---------------------------- MODULE MCSplicePool ----------------------------
(* Instances of SplicePool for TLC. *)
EXTENDS SplicePool, TLC

\* Threads run the same program: safety runs may permute them.
ThreadSymmetry == Permutations(Thread)
=============================================================================
