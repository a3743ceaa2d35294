---------------------------- MODULE MCPoolBlocks ----------------------------
(* Instances of PoolBlocks for TLC. *)
EXTENDS PoolBlocks, TLC

\* Threads run the same program: runs may permute them.
ThreadSymmetry == Permutations(Thread)
=============================================================================
