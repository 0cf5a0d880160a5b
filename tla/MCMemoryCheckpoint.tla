------------------------- MODULE MCMemoryCheckpoint -------------------------
(* Instances of MemoryCheckpoint for TLC. *)
EXTENDS MemoryCheckpoint, TLC

\* Loops are spawned tasks without a name.
LoopSymmetry == Permutations(Loops)
=============================================================================
